---- MODULE Spec2Model ----
(***************************************************************************)
(* Entity resolution of ski-lift-status: the OpenSkiMap matcher of the     *)
(* Lumiplan fetcher (src/src/fetchers/lumiplan/matcher.ts).                *)
(*                                                                         *)
(* A JavaScript string is a sequence of characters; a character is a       *)
(* one-element TLA+ string.  ASCII characters stand for themselves, the    *)
(* accented letters of the folding table are written by name ("e_acute",   *)
(* "E_ACUTE", ...).  A missing, null or undefined string is the empty      *)
(* sequence, which is what parseCSV stores for a missing column and what   *)
(* every falsy test of the code (!name) treats alike.                      *)
(***************************************************************************)
EXTENDS Integers, Sequences, FiniteSets, TLC

VARIABLES
    pc,             \* which operation produced the current state
    str1, str2,     \* arguments of normalizeName / fuzzyScore
    out1, out2,     \* normalizeName(str1), normalizeName(out1)
    score,          \* fuzzyScore(str1, str2)
    referenceData,  \* findMatches: the reference entities
    name, hint,     \* findMatches: the record name and the matching hint
    candidates,     \* findMatches: the local `candidates` after the tiers
    result,         \* findMatches: the returned ids
    allLifts, allRuns,  \* loadReferenceData: the rows parseCSV returned
    openskimapId,   \* loadReferenceData: the requested id, or array of ids
    loaded,         \* loadReferenceData: the returned {lifts, runs}
    onlineNames,    \* mapNames: the extracted names
    results,        \* mapNames: the returned {mapped, unmapped, coverage, ...}
    csvFile,        \* parseCSV: the file at filepath
    parsedRows,     \* parseCSV: the returned rows
    droppedCount,   \* parseCSV: the rows counted as dropped
    RESORTS,        \* the registry of supported resorts
    identifier,     \* getResort: the argument
    resort,         \* getResort: the returned resort, or null
    staticData,     \* the upstream's static POI items
    dynamicData,    \* the upstream's dynamic POI items
    refData,        \* fetchData: the {lifts, runs} loadReferenceData returns
    requests,       \* fetchMapData: the state of the two requests
    fetcher,        \* fetchResortStatus: whether a fetcher was constructed
    promise,        \* fetchResortStatus: the promise it returns
    raw,            \* runner normalizeStatus: the argument
    normalizedStatus,\* runner normalizeStatus: the returned status
    resorts,        \* runner: the configured resorts
    behaviours,     \* runner: what the platform extractor does in each extraction
    arg,            \* runner: the command-line argument, --all or a resort id
    batchStart,     \* runAll: the loop index i
    extractions,    \* runner: the promise of each extractResort call
    runResults,     \* runAll: the results object, by resort id
    insufficientData, \* --all summary: the ids reported as insufficient
    exitCode,       \* runner: the exit code of the process
    server,         \* fetchUrl: what the server does for each URL
    requestUrl,     \* fetchUrl: the URL of the request in flight
    request,        \* fetchUrl: the state of the request in flight
    httpPromise,    \* fetchUrl: the promise the first call returned
    redirects       \* fetchUrl: whether the redirects followed are odd in number

vars == <<pc, str1, str2, out1, out2, score, referenceData, name, hint,
          candidates, result,
          allLifts, allRuns, openskimapId, loaded, onlineNames, results,
          csvFile, parsedRows, droppedCount, RESORTS, identifier, resort,
          staticData, dynamicData, refData, requests, fetcher, promise,
          raw, normalizedStatus,
          resorts, behaviours, arg, batchStart, extractions, runResults,
          insufficientData, exitCode,
          server, requestUrl, request, httpPromise, redirects>>

normVars  == <<str1, str2, out1, out2, score>>
matchVars == <<referenceData, name, hint, candidates, result>>
loadVars  == <<allLifts, allRuns, openskimapId, loaded>>
mapVars   == <<onlineNames, results>>
\* the variables of the operations modelled after the matcher
parseVars == <<csvFile, parsedRows, droppedCount>>
resortVars == <<RESORTS, identifier, resort>>
\* the variables of the operations around the matcher
fetchVars == <<staticData, dynamicData, refData, requests, fetcher, promise>>
statusVars == <<raw, normalizedStatus>>
runVars == <<resorts, behaviours, arg, batchStart, extractions, runResults,
            insufficientData, exitCode>>
httpVars == <<server, requestUrl, request, httpPromise, redirects>>
restVars  == <<fetchVars, statusVars, runVars, httpVars>>
moreVars  == <<mapVars, parseVars, resortVars, restVars>>

-----------------------------------------------------------------------------
(* JavaScript string primitives                                            *)

\* /\s/ and String.prototype.trim: the white space characters
WhiteSpace == {" ", "\t"}

\* the character class [-_\s]
Separators == {"-", "_"} \cup WhiteSpace

\* String.prototype.toLowerCase on the letters the matcher distinguishes
LowerOf ==
    [c \in {"A", "B", "C", "D", "E", "F", "G", "H", "I", "J", "K", "L", "M",
            "N", "O", "P", "Q", "R", "S", "T", "U", "V", "W", "X", "Y", "Z"} |->
        CASE c = "A" -> "a" [] c = "B" -> "b" [] c = "C" -> "c" [] c = "D" -> "d"
          [] c = "E" -> "e" [] c = "F" -> "f" [] c = "G" -> "g" [] c = "H" -> "h"
          [] c = "I" -> "i" [] c = "J" -> "j" [] c = "K" -> "k" [] c = "L" -> "l"
          [] c = "M" -> "m" [] c = "N" -> "n" [] c = "O" -> "o" [] c = "P" -> "p"
          [] c = "Q" -> "q" [] c = "R" -> "r" [] c = "S" -> "s" [] c = "T" -> "t"
          [] c = "U" -> "u" [] c = "V" -> "v" [] c = "W" -> "w" [] c = "X" -> "x"
          [] c = "Y" -> "y" [] c = "Z" -> "z"]
    @@
    [c \in {"E_ACUTE", "E_GRAVE", "E_CIRC", "E_DIAER", "A_GRAVE", "A_CIRC",
            "A_DIAER", "U_DIAER", "U_GRAVE", "O_DIAER", "O_CIRC", "C_CEDIL",
            "N_TILDE"} |->
        CASE c = "E_ACUTE" -> "e_acute" [] c = "E_GRAVE" -> "e_grave"
          [] c = "E_CIRC" -> "e_circ"   [] c = "E_DIAER" -> "e_diaer"
          [] c = "A_GRAVE" -> "a_grave" [] c = "A_CIRC" -> "a_circ"
          [] c = "A_DIAER" -> "a_diaer" [] c = "U_DIAER" -> "u_diaer"
          [] c = "U_GRAVE" -> "u_grave" [] c = "O_DIAER" -> "o_diaer"
          [] c = "O_CIRC" -> "o_circ"   [] c = "C_CEDIL" -> "c_cedil"
          [] c = "N_TILDE" -> "n_tilde"]

toLowerChar(c) == IF c \in DOMAIN LowerOf THEN LowerOf[c] ELSE c

toLowerCase(s) == [i \in 1..Len(s) |-> toLowerChar(s[i])]

RECURSIVE trimStart(_)
trimStart(s) ==
    IF s # <<>> /\ Head(s) \in WhiteSpace THEN trimStart(Tail(s)) ELSE s

RECURSIVE trimEnd(_)
trimEnd(s) ==
    IF s # <<>> /\ s[Len(s)] \in WhiteSpace
    THEN trimEnd(SubSeq(s, 1, Len(s) - 1))
    ELSE s

trim(s) == trimEnd(trimStart(s))

\* String.prototype.includes: t occurs in s as a contiguous substring
includes(s, t) ==
    \E k \in 0..(Len(s) - Len(t)) : SubSeq(s, k + 1, k + Len(t)) = t

-----------------------------------------------------------------------------
(* JavaScript numbers                                                      *)
(* A Number is an IEEE 754 double: the value mant * 2^(-exp) with mant an  *)
(* integer below 2^53.  The integer mant is held in limbs of 11 bits, the  *)
(* least significant limb first.  The operations below are those of        *)
(* fuzzyScore on lengths: a quotient of two lengths, 1 - x, x * 100 and     *)
(* Math.round, each rounded to the nearest double (ties to even).          *)

\* a limb holds 11 bits
LimbBits == 11
LimbBase == 2048
\* a number of six limbs, which a mantissa of 53 bits times 100 fits into
limbs(F(_)) == <<F(1), F(2), F(3), F(4), F(5), F(6)>>
\* significant bits of a double
DoubleBits == 53

limbOf(N, i) == IF i \in 1..Len(N) THEN N[i] ELSE 0

ZeroLimbs == limbs(LAMBDA i : 0)

\* N + 1: a limb changes when every limb below it is full
incrementLimbs(N) ==
    limbs(LAMBDA i :
        IF \A j \in 1..(i - 1) : N[j] = LimbBase - 1
        THEN (N[i] + 1) % LimbBase
        ELSE N[i])

\* the number of bits of N (0 for N = 0)
bitLength(N) ==
    LET used == {i \in 1..Len(N) : N[i] # 0}
    IN  IF used = {} THEN 0
        ELSE LET h == CHOOSE i \in used : \A j \in used : j <= i
             IN  LimbBits * (h - 1)
                   + Cardinality({k \in 0..(LimbBits - 1) : 2^k <= N[h]})

\* floor(N / 2^s) for 0 <= s < LimbBits
shiftRight(N, s) ==
    limbs(LAMBDA i :
        (N[i] \div 2^s) + (limbOf(N, i + 1) % 2^s) * 2^(LimbBits - s))

\* N / 2^s rounded to the nearest integer, ties to even, for 0 <= s < LimbBits
roundShift(N, s) ==
    LET kept == shiftRight(N, s)
        lost == N[1] % 2^s
        up   == /\ s > 0
                /\ \/ 2 * lost > 2^s
                   \/ 2 * lost = 2^s /\ kept[1] % 2 = 1
    IN  IF up THEN incrementLimbs(kept) ELSE kept

\* the double nearest to N * 2^(-exp), for N of at most DoubleBits + LimbBits - 1 bits
toDouble(N, exp) ==
    LET len  == bitLength(N)
        drop == IF len > DoubleBits THEN len - DoubleBits ELSE 0
    IN  [mant |-> roundShift(N, drop), exp |-> exp - drop]

\* long division of n * LimbBase^j by den: the remainder after, and the
\* digit at, position j
RECURSIVE remainderAt(_, _, _)
remainderAt(n, den, j) ==
    IF j = 0 THEN n % den ELSE (LimbBase * remainderAt(n, den, j - 1)) % den

digitAt(n, den, j) ==
    IF j = 0 THEN n \div den ELSE (LimbBase * remainderAt(n, den, j - 1)) \div den

\* num / den for 0 <= num <= den, den > 0: the quotient scaled to
\* DoubleBits bits, rounded by the remainder of the division
divide(num, den) ==
    IF num = 0 THEN [mant |-> ZeroLimbs, exp |-> 0]
    ELSE LET k   == CHOOSE x \in 0..(LimbBits - 1) :
                        /\ num * 2^x >= den
                        /\ \A y \in 0..(x - 1) : num * 2^y < den
             exp == DoubleBits - 1 + k
             t   == exp \div LimbBits
             n   == num * 2^(exp % LimbBits)
             quo == limbs(LAMBDA i :
                        IF i - 1 <= t THEN digitAt(n, den, t - (i - 1)) ELSE 0)
             rem == remainderAt(n, den, t)
             up  == \/ 2 * rem > den
                    \/ 2 * rem = den /\ quo[1] % 2 = 1
         IN  [mant |-> IF up THEN incrementLimbs(quo) ELSE quo, exp |-> exp]

\* the carry into limb i of N * 100
RECURSIVE carryOfTimes100(_, _)
carryOfTimes100(N, i) ==
    IF i = 1 THEN 0
    ELSE (100 * N[i - 1] + carryOfTimes100(N, i - 1)) \div LimbBase

\* x * 100
times100(x) ==
    toDouble(limbs(LAMBDA i :
                 (100 * x.mant[i] + carryOfTimes100(x.mant, i)) % LimbBase),
             x.exp)

\* 2^e - 1 in limbs
allOnes(e) ==
    limbs(LAMBDA i :
        IF LimbBits * i <= e THEN LimbBase - 1
        ELSE IF LimbBits * (i - 1) < e THEN 2^(e - LimbBits * (i - 1)) - 1
        ELSE 0)

\* 1 - x for 0 <= x <= 1: (2^exp - mant) * 2^(-exp)
oneMinus(x) ==
    IF bitLength(x.mant) = 0 THEN divide(1, 1)
    ELSE IF bitLength(x.mant) > x.exp THEN [mant |-> ZeroLimbs, exp |-> 0]
    ELSE toDouble(incrementLimbs(limbs(LAMBDA i : allOnes(x.exp)[i] - x.mant[i])),
                  x.exp)

\* floor(N / 2^s) for an N below 2^(s + LimbBits): one limb
limbFrom(N, s) ==
    LET a == s \div LimbBits
        b == s % LimbBits
    IN  (limbOf(N, a + 1) \div 2^b) + (limbOf(N, a + 2) % 2^b) * 2^(LimbBits - b)

\* Math.round(x) for 0 <= x < 2^(LimbBits - 1): floor(x + 0.5)
mathRound(x) ==
    IF x.exp = 0 THEN x.mant[1]
    ELSE limbFrom(x.mant, x.exp) + (limbFrom(x.mant, x.exp - 1) % 2)

\* Math.ceil in place of Math.round
roundPercentCeil(num, den) == (100 * num + den - 1) \div den

\* Math.round((num / den) * 100) for 0 <= num <= den, den > 0
roundPercent(num, den) == mathRound(times100(divide(num, den)))

\* Math.round((1 - distance / maxLen) * 100) for 0 <= distance <= maxLen
roundPercentOfDistance(distance, maxLen) ==
    mathRound(times100(oneMinus(divide(distance, maxLen))))

-----------------------------------------------------------------------------
(* normalizeName                                                           *)

\* the alternatives of /^(le|la|les|l'|the|der|die|das)\s+/i, in order
Articles ==
    << <<"l", "e">>, <<"l", "a">>, <<"l", "e", "s">>, <<"l", "'">>,
       <<"t", "h", "e">>, <<"d", "e", "r">>, <<"d", "i", "e">>,
       <<"d", "a", "s">> >>

\* alternative a followed by at least one white space character starts s
articleMatches(s, a) ==
    /\ Len(s) > Len(a)
    /\ toLowerCase(SubSeq(s, 1, Len(a))) = a
    /\ s[Len(a) + 1] \in WhiteSpace

\* a normalizer that keeps a leading article
keepArticle(s) == s

\* s.replace(/^(le|la|les|l'|the|der|die|das)\s+/i, '')
stripArticle(s) ==
    LET hits == {k \in 1..Len(Articles) : articleMatches(s, Articles[k])}
    IN  IF hits = {} THEN s
        ELSE LET k == CHOOSE h \in hits : \A g \in hits : h <= g
             IN  trimStart(SubSeq(s, Len(Articles[k]) + 1, Len(s)))

\* a replacement of every separator by a space, runs not collapsed
spaceEachSeparator(s) ==
    [i \in 1..Len(s) |-> IF s[i] \in Separators THEN " " ELSE s[i]]

\* s.replace(/[-_\s]+/g, ' ')
RECURSIVE collapseFrom(_, _)
collapseFrom(s, i) ==
    IF i > Len(s) THEN <<>>
    ELSE IF s[i] \in Separators
         THEN IF i > 1 /\ s[i - 1] \in Separators
              THEN collapseFrom(s, i + 1)
              ELSE <<" ">> \o collapseFrom(s, i + 1)
         ELSE <<s[i]>> \o collapseFrom(s, i + 1)

collapseSeparators(s) == collapseFrom(s, 1)

\* the six replace calls of the accent table
FoldOf ==
    [c \in {"e_acute", "e_grave", "e_circ", "e_diaer", "a_grave", "a_circ",
            "a_diaer", "u_diaer", "u_grave", "o_diaer", "o_circ", "c_cedil",
            "n_tilde"} |->
        CASE c \in {"e_acute", "e_grave", "e_circ", "e_diaer"} -> "e"
          [] c \in {"a_grave", "a_circ", "a_diaer"} -> "a"
          [] c \in {"u_diaer", "u_grave"} -> "u"
          [] c \in {"o_diaer", "o_circ"} -> "o"
          [] c = "c_cedil" -> "c"
          [] c = "n_tilde" -> "n"]

foldChar(c) == IF c \in DOMAIN FoldOf THEN FoldOf[c] ELSE c

foldAccents(s) == [i \in 1..Len(s) |-> foldChar(s[i])]

normalizeName(n) ==
    IF n = <<>> THEN <<>>
    ELSE trim(foldAccents(collapseSeparators(stripArticle(toLowerCase(trim(n))))))

-----------------------------------------------------------------------------
(* fuzzyScore                                                              *)

Min2(a, b) == IF a <= b THEN a ELSE b
Max2(a, b) == IF a >= b THEN a ELSE b

\* row i of the matrix (entries j = 0..Len(s2), held at positions 1..Len(s2)+1),
\* filled left to right from row i-1
RECURSIVE matrixRowFrom(_, _, _, _, _)
matrixRowFrom(s1, s2, i, prev, acc) ==
    LET j == Len(acc)
    IN  IF j > Len(s2) THEN acc
        ELSE LET cost == IF s1[i] = s2[j] THEN 0 ELSE 1
                 cell == Min2(Min2(prev[j + 1] + 1, acc[j] + 1), prev[j] + cost)
             IN  matrixRowFrom(s1, s2, i, prev, Append(acc, cell))

\* row i is filled once row i-1 is complete (Len(s2) + 1 entries)
RECURSIVE matrixRow(_, _, _)
matrixRow(s1, s2, i) ==
    IF i = 0 THEN [j \in 1..(Len(s2) + 1) |-> j - 1]
    ELSE LET prev == matrixRow(s1, s2, i - 1)
         IN  IF Len(prev) = Len(s2) + 1
             THEN matrixRowFrom(s1, s2, i, prev, <<i>>)
             ELSE prev

\* matrix[s1.length][s2.length]
levenshtein(s1, s2) == matrixRow(s1, s2, Len(s1))[Len(s2) + 1]

fuzzyScore(a, b) ==
    LET s1 == normalizeName(a)
        s2 == normalizeName(b)
    IN  IF s1 = s2 THEN 100
        ELSE IF s1 = <<>> \/ s2 = <<>> THEN 0
        ELSE IF includes(s1, s2) \/ includes(s2, s1)
             THEN roundPercent(Min2(Len(s1), Len(s2)), Max2(Len(s1), Len(s2)))
             ELSE LET maxLen == Max2(Len(s1), Len(s2))
                  IN  roundPercentOfDistance(levenshtein(s1, s2), maxLen)

-----------------------------------------------------------------------------
(* findMatches                                                             *)

\* the fuzzy tier keeps a candidate when score >= 75
FuzzyThreshold == 75

\* most entities of a reference list
MaxRefs == 2

Lac    == <<"L", "a", "c">>
LAC    == <<"L", "A", "C">>
LeLac  == <<"L", "e", " ", "L", "a", "c">>
Lacs   == <<"L", "a", "c", "s">>
Lace   == <<"L", "a", "c", "e">>
Lacs2  == <<"L", "a", "c", "s", "2">>
\* placeholder names, which normalize to the empty string
Dash   == <<"-", "-", "-", "-", "-", "-", "-">>
Under  == <<"_", "_", "_", "_", "_", "_", "_">>

\* names of reference entities: missing, equal up to case, equal after
\* normalizing, similar to different degrees, and a name that normalizes to
\* the empty string
EntityNames == {<<>>, LAC, LeLac, Lace, Lacs2, Under}

\* names of extracted records (the empty name takes the early return)
RecordNames == {<<>>, Lac, LeLac, Lacs, Dash}

\* the names of the scenarios of the specification: two lifts that share the
\* accented name "T\'el\'ecabine de Caron", and the run "Les Cascades"
TelecabineDeCaronAccented ==
    <<"T", "e_acute", "l", "e_acute", "c", "a", "b", "i", "n", "e", " ",
      "d", "e", " ", "C", "a", "r", "o", "n">>
TelecabineDeCaron ==
    <<"T", "e", "l", "e", "c", "a", "b", "i", "n", "e", " ",
      "d", "e", " ", "C", "a", "r", "o", "n">>
LesCascades == <<"L", "e", "s", " ", "C", "a", "s", "c", "a", "d", "e", "s">>
Cascades == <<"C", "a", "s", "c", "a", "d", "e", "s">>

Cascade == <<"C", "a", "s", "c", "a", "d", "e">>

\* names of the scenario entities; a lift of the catalog may have no name
ScenarioEntityNames == {<<>>, TelecabineDeCaronAccented, LesCascades}
ScenarioRecordNames == {TelecabineDeCaron, Cascades}

\* names a page is scraped for: none, equal to an entity name, equal after
\* normalizing, and similar
OnlineNames == {<<>>, LesCascades, TelecabineDeCaron, Cascades, Cascade}

\* The three string functions tabulated over the names of the model, so that
\* a name is lower-cased, normalized and scored once and not once per state.
Names ==
    EntityNames \cup RecordNames \cup ScenarioEntityNames
        \cup ScenarioRecordNames \cup OnlineNames

\* a function as the explicit table of its values
table(f) == f @@ <<>>

LowerCaseOf == table([n \in Names |-> toLowerCase(n)])
NormalizedOf == table([n \in Names |-> normalizeName(n)])
FuzzyScoreOf == table([p \in Names \X Names |-> fuzzyScore(p[1], p[2])])

\* byName.get(name.toLowerCase()) || []: the named entities, in reference
\* order, whose lower-cased name is the lower-cased record name
exactCandidates(n, ref) ==
    SelectSeq(ref, LAMBDA e : e.name # <<>> /\ LowerCaseOf[e.name] = LowerCaseOf[n])

\* byNormalized.get(normalizeName(name)) || []
normalizedCandidates(n, ref) ==
    SelectSeq(ref, LAMBDA e : e.name # <<>> /\ NormalizedOf[e.name] = NormalizedOf[n])

\* a fuzzy tier that keeps the single best score at or above the threshold
fuzzyBestOnly(n, ref) ==
    LET ok == SelectSeq(ref, LAMBDA e :
                  e.name # <<>> /\ FuzzyScoreOf[<<n, e.name>>] >= FuzzyThreshold)
        best == {i \in 1..Len(ok) :
                    /\ \A j \in 1..Len(ok) :
                          FuzzyScoreOf[<<n, ok[j].name>>] <= FuzzyScoreOf[<<n, ok[i].name>>]
                    /\ \A j \in 1..(i - 1) :
                          FuzzyScoreOf[<<n, ok[j].name>>] < FuzzyScoreOf[<<n, ok[i].name>>]}
    IN  IF ok = <<>> THEN <<>> ELSE <<ok[CHOOSE i \in best : TRUE]>>

\* a fuzzy tier without the threshold: every named entity is a candidate
fuzzyKeepsAllNamed(n, ref) == SelectSeq(ref, LAMBDA e : e.name # <<>>)

\* the loop of the fuzzy tier
fuzzyCandidates(n, ref) ==
    SelectSeq(ref, LAMBDA e : e.name # <<>> /\ FuzzyScoreOf[<<n, e.name>>] >= FuzzyThreshold)

\* the tiers without their short circuit: every tier adds its candidates
matchCandidatesAllTiers(n, ref) ==
    SelectSeq(ref, LAMBDA e :
        \/ \E k \in 1..Len(exactCandidates(n, ref)) : exactCandidates(n, ref)[k] = e
        \/ \E k \in 1..Len(normalizedCandidates(n, ref)) : normalizedCandidates(n, ref)[k] = e
        \/ \E k \in 1..Len(fuzzyCandidates(n, ref)) : fuzzyCandidates(n, ref)[k] = e)

\* the value of the local `candidates` after the three tiers
matchCandidates(n, ref) ==
    LET exact == exactCandidates(n, ref)
        normalized == IF exact = <<>> THEN normalizedCandidates(n, ref) ELSE exact
    IN  IF normalized = <<>> THEN fuzzyCandidates(n, ref) ELSE normalized

\* a filter that keeps only the candidates whose attribute equals the hint
hintKeepsEqualOnly(c, h) ==
    IF h.type # "" THEN c.lift_type = h.type
    ELSE IF h.difficulty # "" THEN c.difficulty = h.difficulty
    ELSE TRUE

\* a filter that looks at the difficulty only and ignores a lift type hint
hintKeepsDifficultyOnly(c, h) ==
    IF h.difficulty # "" /\ c.difficulty # "" THEN c.difficulty = h.difficulty
    ELSE TRUE

\* the callback of candidates.filter; "" is a missing, null or empty field
hintKeeps(c, h) ==
    IF h.type # "" /\ c.lift_type # "" THEN c.lift_type = h.type
    ELSE IF h.difficulty # "" /\ c.difficulty # "" THEN c.difficulty = h.difficulty
    ELSE TRUE

idsOf(cs) == [i \in 1..Len(cs) |-> cs[i].id]

\* disambiguation without the fallback to all candidates
disambiguateNoFallback(cs, h) ==
    IF Len(cs) = 0 THEN <<>>
    ELSE IF Len(cs) = 1 THEN <<cs[1].id>>
    ELSE IF h.type # "" \/ h.difficulty # ""
         THEN idsOf(SelectSeq(cs, LAMBDA c : hintKeeps(c, h)))
         ELSE idsOf(cs)

\* disambiguation that picks the first candidate when it has no hint
disambiguateFirstOnly(cs, h) ==
    IF Len(cs) = 0 THEN <<>>
    ELSE IF h.type = "" /\ h.difficulty = "" THEN <<cs[1].id>>
    ELSE LET filtered == SelectSeq(cs, LAMBDA c : hintKeeps(c, h))
         IN  IF Len(filtered) > 0 THEN idsOf(filtered) ELSE idsOf(cs)

\* disambiguation that puts the candidates the hint keeps before the others
disambiguateHintFirst(cs, h) ==
    IF Len(cs) = 0 THEN <<>>
    ELSE IF Len(cs) = 1 THEN <<cs[1].id>>
    ELSE idsOf(SelectSeq(cs, LAMBDA c : hintKeeps(c, h)))
            \o idsOf(SelectSeq(cs, LAMBDA c : ~hintKeeps(c, h)))

\* the part of findMatches after the tiers
disambiguate(cs, h) ==
    IF Len(cs) = 0 THEN <<>>
    ELSE IF Len(cs) = 1 THEN <<cs[1].id>>
    ELSE LET filtered == SelectSeq(cs, LAMBDA c : hintKeeps(c, h))
         IN  IF (h.type # "" \/ h.difficulty # "") /\ Len(filtered) > 0
             THEN idsOf(filtered)
             ELSE idsOf(cs)

\* a findMatches that narrows the reference list itself to its candidates
referenceNarrowedToCandidates(n, ref, h) ==
    IF n = <<>> \/ matchCandidates(n, ref) = <<>> THEN ref
    ELSE matchCandidates(n, ref)

\* the reference list after a call: findMatches reads the entities into maps
\* and arrays of its own and writes to none of its arguments
referenceAfterFindMatches(n, ref, h) == ref

\* the local `candidates` when findMatches returns (empty on the early return)
candidatesOf(n, ref) == IF n = <<>> THEN <<>> ELSE matchCandidates(n, ref)

findMatches(n, ref, h) == disambiguate(candidatesOf(n, ref), h)

-----------------------------------------------------------------------------
(* mapNames (the name mapper, src/unnamed/part_009)                        *)

\* the default of options.fuzzyThreshold
DefaultFuzzyThreshold == 75

\* exactLookup.get(key): every named entity is stored under its name and under
\* its lower-cased name, a later entity replacing an earlier one; the value is
\* the position of the entity in the reference list, 0 for undefined
exactLookupGet(ref, key) ==
    LET hits == {i \in 1..Len(ref) :
                    /\ ref[i].name # <<>>
                    /\ ref[i].name = key \/ LowerCaseOf[ref[i].name] = key}
    IN  IF hits = {} THEN 0 ELSE CHOOSE i \in hits : \A j \in hits : j <= i

\* normalizedLookup.get(key)
normalizedLookupGet(ref, key) ==
    LET hits == {i \in 1..Len(ref) :
                    ref[i].name # <<>> /\ NormalizedOf[ref[i].name] = key}
    IN  IF hits = {} THEN 0 ELSE CHOOSE i \in hits : \A j \in hits : j <= i

\* the fuzzy loop: the first entity of the highest score at or above the
\* threshold; 0 for null
bestOf(scores) ==
    LET ok == {i \in 1..Len(scores) :
                  scores[i] > 0 /\ scores[i] >= DefaultFuzzyThreshold}
    IN  IF ok = {} THEN 0
        ELSE CHOOSE i \in ok : \A j \in ok :
                \/ scores[j] < scores[i]
                \/ scores[j] = scores[i] /\ i <= j

\* fuzzyScore(onlineName, refName) of every entity of the reference list, 0
\* for an entity the loop skips because it has no name
scoresOf(n, ref) ==
    [i \in 1..Len(ref) |->
        IF ref[i].name # <<>> THEN FuzzyScoreOf[<<n, ref[i].name>>] ELSE 0]

bestMatchOf(n, ref) == bestOf(scoresOf(n, ref))

\* the entry pushed to results.mapped; confidence is held in hundredths
mappedEntry(n, e, type, hundredths) ==
    [online_name |-> n, openskimap_id |-> e.id, openskimap_name |-> e.name,
     match_type |-> type, confidence |-> hundredths]

\* a name pushed to results.unmapped
unmappedEntry(n) ==
    [online_name |-> n, openskimap_id |-> 0, openskimap_name |-> <<>>,
     match_type |-> "unmapped", confidence |-> 0]

\* one pass of the loop over onlineNames, for a name that is not empty
mapOneFrom(n, ref, exact, normalized, scores) ==
    IF exact # 0 THEN mappedEntry(n, ref[exact], "exact", 100)
    ELSE IF normalized # 0 THEN mappedEntry(n, ref[normalized], "normalized", 90)
    ELSE IF bestOf(scores) # 0
         THEN mappedEntry(n, ref[bestOf(scores)], "fuzzy", scores[bestOf(scores)])
         ELSE unmappedEntry(n)

\* exactLookup.get(onlineName) || exactLookup.get(onlineName.toLowerCase())
exactMatchOf(n, ref) ==
    IF exactLookupGet(ref, n) # 0 THEN exactLookupGet(ref, n)
    ELSE exactLookupGet(ref, LowerCaseOf[n])

mapOne(n, ref) ==
    mapOneFrom(n, ref, exactMatchOf(n, ref),
               normalizedLookupGet(ref, NormalizedOf[n]), scoresOf(n, ref))

\* a numerator that counts the mapped names
mappedEntries(mapped) == Len(mapped)

\* mappedIds.size: the ids added to the Set
mappedIdsSize(mapped) ==
    Cardinality({mapped[k].openskimap_id : k \in 1..Len(mapped)})

\* the coverage without the test for an empty reference list
coverageUnguarded(size, length) == [num |-> 100 * size, den |-> length]

\* results.coverage: the quotient num / den, which is
\* (mappedIds.size / referenceEntities.length) * 100, or the initial 0
coverageOf(size, length) ==
    IF length > 0 THEN [num |-> 100 * size, den |-> length]
    ELSE [num |-> 0, den |-> 1]

\* the reference list after a call: mapNames reads the entities into lookup
\* tables of its own and writes to none of its arguments
referenceAfterMapNames(names, ref) == ref

\* the results object after the loop and the summary
resultsOf(mappedList, unmappedList, ref) ==
    [mapped |-> mappedList,
     unmapped |-> [k \in 1..Len(unmappedList) |-> unmappedList[k].online_name],
     coverage |-> coverageOf(mappedIdsSize(mappedList), Len(ref)),
     referenceCount |-> Len(ref),
     mappedCount |-> Len(mappedList),
     unmappedCount |-> Len(unmappedList)]

\* the loop: one entry for every name that is not empty, in the order given
entriesOf(given, ref) == [k \in 1..Len(given) |-> mapOne(given[k], ref)]

resultsOfEntries(each, ref) ==
    resultsOf(SelectSeq(each, LAMBDA m : m.match_type # "unmapped"),
              SelectSeq(each, LAMBDA m : m.match_type = "unmapped"), ref)

mapNames(names, ref) ==
    resultsOfEntries(entriesOf(SelectSeq(names, LAMBDA n : n # <<>>), ref), ref)

\* no call of mapNames yet
NoResults ==
    [mapped |-> <<>>, unmapped |-> <<>>, coverage |-> [num |-> 0, den |-> 1],
     referenceCount |-> 0, mappedCount |-> 0, unmappedCount |-> 0]

\* most names extracted from one page
MaxNames == 2

OnlineNameLists == UNION { [1..k -> OnlineNames] : k \in 0..MaxNames }

-----------------------------------------------------------------------------
(* Inputs of the matcher                                                   *)
\* lift_type and difficulty columns of an entity; "" is a missing column
Categories ==
    { [lift_type |-> "",           difficulty |-> ""],
      [lift_type |-> "gondola",    difficulty |-> ""],
      [lift_type |-> "chair_lift", difficulty |-> ""],
      [lift_type |-> "",           difficulty |-> "easy"] }

\* hints of a record: none, a lift type, a difficulty some entity has, and a
\* difficulty no entity has
Hints ==
    { [type |-> "",        difficulty |-> ""],
      [type |-> "gondola", difficulty |-> ""],
      [type |-> "",        difficulty |-> "easy"],
      [type |-> "",        difficulty |-> "advanced"] }

NoHint == [type |-> "", difficulty |-> ""]

\* reference lists of k entities; ids are unique, the id of an entity is its
\* position in the catalog
RefListsOfLen(k) ==
    { [i \in 1..k |-> [id |-> i, name |-> f[i][1],
                       lift_type |-> f[i][2].lift_type,
                       difficulty |-> f[i][2].difficulty]] :
        f \in [1..k -> EntityNames \X Categories] }

RefLists == UNION { RefListsOfLen(k) : k \in 0..MaxRefs }

\* the catalogs of the scenarios: lifts of the two scenario names
ScenarioCategories ==
    { [lift_type |-> "gondola",    difficulty |-> ""],
      [lift_type |-> "chair_lift", difficulty |-> ""] }

ScenarioHints ==
    { [type |-> "",           difficulty |-> ""],
      [type |-> "gondola",    difficulty |-> ""],
      [type |-> "chair_lift", difficulty |-> ""] }

ScenarioRefListsOfLen(k) ==
    { [i \in 1..k |-> [id |-> i, name |-> f[i][1],
                       lift_type |-> f[i][2].lift_type,
                       difficulty |-> f[i][2].difficulty]] :
        f \in [1..k -> ScenarioEntityNames \X ScenarioCategories] }

ScenarioRefLists == UNION { ScenarioRefListsOfLen(k) : k \in 0..MaxRefs }

-----------------------------------------------------------------------------
(* loadReferenceData                                                       *)

\* const ids = Array.isArray(openskimapId) ? openskimapId : [openskimapId]
requestedIds(req) == IF req.isArray THEN req.value ELSE <<req.value>>

\* the predicate of allLifts.filter: the column is present and contains one of
\* the requested ids as a substring
liftRetained(row, ids) ==
    /\ row.ski_area_ids # <<>>
    /\ \E k \in 1..Len(ids) : includes(row.ski_area_ids, ids[k])

\* the predicate of allRuns.filter
runRetained(row, ids) ==
    /\ row.ski_area_ids # <<>>
    /\ row.name # <<>>
    /\ \E k \in 1..Len(ids) : includes(row.ski_area_ids, ids[k])

loadReferenceData(req, lifts, runs) ==
    LET ids == requestedIds(req)
    IN  [lifts |-> SelectSeq(lifts, LAMBDA r : liftRetained(r, ids)),
         runs  |-> SelectSeq(runs, LAMBDA r : runRetained(r, ids))]

\* (ski_area_ids || '').split(';'): the scope ids a row lists
RECURSIVE splitFrom(_, _, _)
splitFrom(s, i, cur) ==
    IF i > Len(s) THEN {cur}
    ELSE IF s[i] = ";" THEN {cur} \cup splitFrom(s, i + 1, <<>>)
    ELSE splitFrom(s, i + 1, Append(cur, s[i]))

scopeIdsOf(row) == splitFrom(row.ski_area_ids, 1, <<>>)

-----------------------------------------------------------------------------
(* parseCSV                                                                *)

\* obj[header] = (values[idx] || '').trim(), for the required columns
parseCSVRow(values) == [id |-> trim(values.id), name |-> trim(values.name)]

\* the rows pushed: those whose id and name are both not empty.  A file that
\* does not exist, or has no line after its header, gives no rows.
parseCSV(file) ==
    IF ~file.exists THEN <<>>
    ELSE SelectSeq([k \in 1..Len(file.lines) |-> parseCSVRow(file.lines[k])],
                   LAMBDA obj : obj.id # <<>> /\ obj.name # <<>>)

-----------------------------------------------------------------------------
(* Inputs of the loader                                                    *)

\* most rows of lifts.csv and runs.csv together
MaxRows == 2

\* ski area ids: "a" is a substring of "ab"
ScopeIds == { <<"a">>, <<"b">>, <<"a", "b">> }

\* values of the ski_area_ids column: missing, one id, several ids
ScopeFields ==
    { <<>>, <<"a">>, <<"b">>, <<"a", "b">>, <<"a", ";", "b">>,
      <<"a", "b", ";", "b">> }

RowsOfLen(k) ==
    { [i \in 1..k |-> [id |-> i, name |-> Lac, ski_area_ids |-> f[i]]] :
        f \in [1..k -> ScopeFields] }

\* the arguments a caller passes: one id, or an array of up to two ids
Requests ==
    { [isArray |-> FALSE, value |-> x] : x \in ScopeIds }
    \cup { [isArray |-> TRUE, value |-> <<>>] }
    \cup { [isArray |-> TRUE, value |-> <<x>>] : x \in ScopeIds }
    \cup { [isArray |-> TRUE, value |-> <<x, y>>] : x \in ScopeIds, y \in ScopeIds }

NoRequest == [isArray |-> TRUE, value |-> <<>>]
NothingLoaded == [lifts |-> <<>>, runs |-> <<>>]

\* values of the id and name columns of a line: missing, blank, present, and
\* present with white space around it
CsvIds == { <<>>, <<" ">>, <<"7">>, <<" ", "7">> }
CsvNames == { <<>>, <<" ">>, Lac, <<" ">> \o Lac }

\* the lines after the header, split into columns by parseCSVLine
CsvLinesOfLen(k) == [1..k -> [id : CsvIds, name : CsvNames]]

CsvFiles ==
    { [exists |-> FALSE, lines |-> <<>>] }
    \cup { [exists |-> TRUE, lines |-> l] :
              l \in UNION { CsvLinesOfLen(k) : k \in 0..MaxRows } }

NoFile == [exists |-> FALSE, lines |-> <<>>]

-----------------------------------------------------------------------------
(* Inputs of normalizeName and fuzzyScore                                  *)

\* longest string drawn from the alphabet
MaxStrLen == 4

Alphabet == {"L", "e", " ", "-", "x", "E_ACUTE"}

StringsOfLen(k) == [1..k -> Alphabet]

TSDCombeFolle ==
    <<"T", "S", "D", " ", "C", "o", "m", "b", "e", " ", "F", "o", "l", "l", "e">>
CombeFolle == <<"C", "o", "m", "b", "e", " ", "F", "o", "l", "l", "e">>
LesMenuires == <<"L", "e", "s", " ", "M", "e", "n", "u", "i", "r", "e", "s">>
Telepherique ==
    <<"T", "e_acute", "l", "e_acute", "p", "h", "e_acute", "r", "i", "q", "u", "e">>
Lesotho == <<"L", "e", "s", "o", "t", "h", "o">>
LeLaX == <<"l", "e", " ", "l", "a", " ", "x">>
LePraz == <<"l", "e", "-", "p", "r", "a", "z">>

\* the other articles: "l' x", "The  das x", "DER\t_x", "la", "die x", "das_x"
LApostropheX == <<"l", "'", " ", "x">>
TheDasX == <<"T", "h", "e", " ", " ", "d", "a", "s", " ", "x">>
DerTabX == <<"D", "E", "R", "\t", "_", "x">>
La == <<"l", "a">>
DieX == <<"d", "i", "e", " ", "x">>
DasUnderX == <<"d", "a", "s", "_", "x">>

ExampleStrings ==
    {TSDCombeFolle, CombeFolle, LesMenuires, Telepherique, Lesotho, LeLaX, LePraz,
     LApostropheX, TheDasX, DerTabX, La, DieX, DasUnderX}

ShortStrings == UNION { StringsOfLen(k) : k \in 0..MaxStrLen }

\* second arguments of fuzzyScore
OtherStrings == {<<>>, <<"x">>, <<"L", "e", " ", "x">>, <<"e", "x", "e", "-">>}

\* a name of 40 letters, and its first 23 letters
Name40 ==
    <<"t", "e", "l", "e", "s", "i", "e", "g", "e", "d", "e", "b", "r", "a", "y",
      "a", "b", "l", "e", "d", "u", "c", "o", "l", "d", "e", "l", "a", "g", "r",
      "a", "n", "d", "e", "c", "a", "s", "s", "e", "x">>
Name23 == SubSeq(Name40, 1, 23)

\* argument pairs: every short string against the second arguments, the named
\* examples alone, and the pairs of the containment examples
ArgumentPairs ==
    (ShortStrings \X OtherStrings)
    \cup (ExampleStrings \X {<<>>})
    \cup {<<TSDCombeFolle, CombeFolle>>, <<Name23, Name40>>}

-----------------------------------------------------------------------------
(* The matcher as a state machine: the catalog is loaded once, then the     *)
(* caller resolves its records against it one after the other.              *)

normIdle ==
    str1 = <<>> /\ str2 = <<>> /\ out1 = <<>> /\ out2 = <<>> /\ score = 0

matchIdle ==
    /\ referenceData = <<>> /\ name = <<>> /\ hint = NoHint
    /\ candidates = <<>> /\ result = <<>>

loadIdle ==
    /\ allLifts = <<>> /\ allRuns = <<>> /\ openskimapId = NoRequest
    /\ loaded = NothingLoaded

-----------------------------------------------------------------------------
(* findResort and getResort (src/src/index.ts)                             *)

\* openskimap_id of a resort configuration is one id or an array of ids
oneId(id) == [kind |-> "string", string |-> id, items |-> <<>>]

arrayOfIds(ids) == [kind |-> "array", string |-> "", items |-> ids]

LesTroisVallees ==
    [id |-> "les-trois-vallees",
     openskimap_id |-> oneId("68b126bc3175516c9263aed7635d14e37ff360dc")]

EspaceDiamant ==
    [id |-> "espace-diamant",
     openskimap_id |-> oneId("0345d73f7a4bf0f49815ccb16306a3ec6371544b")]

LeGrandDomaine ==
    [id |-> "le-grand-domaine",
     openskimap_id |-> oneId("97a14cedc5b0e781e9bd9857df1426b9376c7462")]

LesSybelles ==
    [id |-> "les-sybelles",
     openskimap_id |-> oneId("9bba1f0b01dd1dd8cfd9635a04be9cd1de3f6ab3")]

LaPlagne == "f47f7e05cc676b25b6a00f77f0b86a897f03018c"

LesArcs == "dec537b602584db89d89ab114a619f1ae356398e"

Paradiski ==
    [id |-> "paradiski", openskimap_id |-> arrayOfIds(<<LaPlagne, LesArcs>>)]

\* the array RESORTS of the module
SupportedResorts ==
    <<LesTroisVallees, EspaceDiamant, LeGrandDomaine, LesSybelles, Paradiski>>

\* r.openskimap_id === identifier, identifier a string: strict equality holds
\* for two equal strings and for no array
openskimapIdIs(r, id) ==
    r.openskimap_id.kind = "string" /\ r.openskimap_id.string = id

\* RESORTS.find(...): the position of the first resort the callback accepts,
\* 0 for undefined
find(rs, accepts(_)) ==
    IF \E i \in 1..Len(rs) : accepts(rs[i])
    THEN CHOOSE i \in 1..Len(rs) :
             accepts(rs[i]) /\ \A j \in 1..(i - 1) : ~accepts(rs[j])
    ELSE 0

\* a lookup that falls back to the first resort of the registry
findResortOrFirst(rs, id) ==
    LET byId == find(rs, LAMBDA r : r.id = id)
        byOsm == find(rs, LAMBDA r : openskimapIdIs(r, id))
    IN  IF byId # 0 THEN byId ELSE IF byOsm # 0 THEN byOsm ELSE 1

\* the position in RESORTS of the resort returned, 0 for null
findResort(rs, id) ==
    LET byId == find(rs, LAMBDA r : r.id = id)
    IN  IF byId # 0 THEN byId ELSE find(rs, LAMBDA r : openskimapIdIs(r, id))

getResort(rs, resortIdOrOsmId) == findResort(rs, resortIdOrOsmId)

\* the registries: RESORTS as it is, and the registries of a release that
\* supports up to MaxResorts of these resorts
MaxResorts == 2

distinct(rs) == \A i, j \in 1..Len(rs) : i # j => rs[i] # rs[j]

ResortLists ==
    {SupportedResorts} \cup
    UNION {{rs \in [1..k -> {SupportedResorts[i] : i \in 1..Len(SupportedResorts)}] :
                distinct(rs)} : k \in 1..MaxResorts}

openskimapIdsOf(r) ==
    IF r.openskimap_id.kind = "string" THEN {r.openskimap_id.string}
    ELSE {r.openskimap_id.items[k] : k \in 1..Len(r.openskimap_id.items)}

\* the arguments of getResort: the ids and OpenSkiMap ids of the resorts and
\* the name of no resort
Identifiers ==
    {SupportedResorts[i].id : i \in 1..Len(SupportedResorts)}
    \cup UNION {openskimapIdsOf(SupportedResorts[i]) : i \in 1..Len(SupportedResorts)}
    \cup {"non-existent-resort"}

-----------------------------------------------------------------------------
(* fetchResortStatus (src/src/index.ts), BaseFetcher.fetch                  *)
(* (src/unnamed/part_007) and LumiplanFetcher (src/unnamed/part_008).       *)
(* A static item is its `data` object: id (its position in the upstream's   *)
(* list, 0 when missing), name, type, liftType, trailLevel and length (<<>> *)
(* when missing).  A dynamic item is {id, openingStatus}; "" is undefined.  *)

\* StatusSchema
Statuses == {"open", "closed", "scheduled"}

\* a status mapping that takes a delayed opening for a closure
normalizeStatusDelayedClosed(apiStatus) ==
    IF apiStatus = "OPEN" THEN "open"
    ELSE IF apiStatus = "FORECAST" THEN "scheduled"
    ELSE "closed"

\* LumiplanFetcher.normalizeStatus
normalizeStatus(apiStatus) ==
    IF apiStatus = "OPEN" THEN "open"
    ELSE IF apiStatus \in {"FORECAST", "DELAYED"} THEN "scheduled"
    ELSE "closed"

\* the lift types and trail levels the upstream of the model reports
LiftTypes == {"", "GONDOLA", "DRAG_LIFT"}

TrailLevels == {"", "BLUE", "YELLOW"}

\* normalizeLiftType on LiftTypes: "GONDOLA" includes GONDOLA, "DRAG_LIFT"
\* includes none of the substrings tested; "" is null
normalizeLiftType(lumiplanType) ==
    IF lumiplanType = "" THEN ""
    ELSE IF lumiplanType = "GONDOLA" THEN "gondola"
    ELSE ""

\* normalizeDifficulty on TrailLevels: "BLUE" includes BLUE, "YELLOW"
\* includes none of the substrings tested; "" is null
normalizeDifficulty(lumiplanLevel) ==
    IF lumiplanLevel = "" THEN ""
    ELSE IF lumiplanLevel = "BLUE" THEN "easy"
    ELSE ""

\* statusMap.get(id)?.openingStatus: the entry set last for the id wins
openingStatusOf(dynamicItems, id) ==
    LET at == {k \in 1..Len(dynamicItems) : dynamicItems[k].id = id}
    IN  IF at = {} THEN ""
        ELSE dynamicItems[CHOOSE k \in at : \A j \in at : j <= k].openingStatus

\* the items the loop does not skip: !name || !type || !id
kept(data) == data.name # <<>> /\ data.type # "" /\ data.id # 0

\* the object pushed to lifts
liftOf(data, dynamicItems, refLifts) ==
    [name |-> data.name,
     status |-> normalizeStatus(openingStatusOf(dynamicItems, data.id)),
     liftType |-> IF data.liftType = "" THEN "unknown" ELSE data.liftType,
     openskimap_ids |->
         findMatches(data.name, refLifts,
                     [type |-> normalizeLiftType(data.liftType), difficulty |-> ""]),
     length |-> data.length,
     openingStatus |-> openingStatusOf(dynamicItems, data.id)]

\* the object pushed to runs
runOf(data, dynamicItems, refRuns) ==
    [name |-> data.name,
     status |-> normalizeStatus(openingStatusOf(dynamicItems, data.id)),
     level |-> data.trailLevel,
     openskimap_ids |->
         findMatches(data.name, refRuns,
                     [type |-> "", difficulty |-> normalizeDifficulty(data.trailLevel)]),
     length |-> data.length,
     openingStatus |-> openingStatusOf(dynamicItems, data.id)]

keptOfType(staticItems, type) ==
    SelectSeq(staticItems, LAMBDA data : kept(data) /\ data.type = type)

liftsOf(liftItems, dynamicItems, refLifts) ==
    [k \in 1..Len(liftItems) |-> liftOf(liftItems[k], dynamicItems, refLifts)]

runsOf(trailItems, dynamicItems, refRuns) ==
    [k \in 1..Len(trailItems) |-> runOf(trailItems[k], dynamicItems, refRuns)]

\* the value fetchData returns, without the resort
fetchData(staticItems, dynamicItems, ref) ==
    [lifts |-> liftsOf(keptOfType(staticItems, "LIFT"), dynamicItems, ref.lifts),
     runs |-> runsOf(keptOfType(staticItems, "TRAIL"), dynamicItems, ref.runs)]

\* z.number().positive().optional()
positiveOrMissing(length) == length = <<>> \/ length[1] > 0

\* LiftSchema
validLift(l) ==
    /\ l.name # <<>>
    /\ l.status \in Statuses
    /\ l.liftType # ""
    /\ positiveOrMissing(l.length)

\* RunSchema
validRun(r) ==
    /\ r.name # <<>>
    /\ r.status \in Statuses
    /\ positiveOrMissing(r.length)

\* whether ResortStatusSchema.parse(data) returns (it throws a ZodError
\* otherwise); the resort was validated when the module was loaded
validResortStatus(data) ==
    /\ \A k \in 1..Len(data.lifts) : validLift(data.lifts[k])
    /\ \A k \in 1..Len(data.runs) : validRun(data.runs[k])

\* a promise: not created, pending, fulfilled with a value or rejected with
\* an error; a message is the sequence of its parts
NoPromise == [state |-> "none", error |-> <<>>, lifts |-> <<>>, runs |-> <<>>]

pendingPromise == [NoPromise EXCEPT !.state = "pending"]

rejected(error) == [NoPromise EXCEPT !.state = "rejected", !.error = error]

fulfilled(data) ==
    [state |-> "fulfilled", error |-> <<>>, lifts |-> data.lifts, runs |-> data.runs]

\* the two requests of fetchMapData: none, pending, fulfilled or rejected
NoRequests == [static |-> "none", dynamic |-> "none"]

NoRefData == [lifts |-> <<>>, runs |-> <<>>]

\* BaseFetcher.fetch after fetchData has returned
fetchValidated(data) ==
    IF validResortStatus(data) THEN fulfilled(data) ELSE rejected(<<"ZodError">>)

\* the promise of fetchResortStatus after one of the two requests has
\* settled: Promise.all rejects with the first rejection and is fulfilled
\* when both requests are
promiseAfter(p, reqs, staticItems, dynamicItems, ref) ==
    IF p.state # "pending" THEN p
    ELSE IF "rejected" \in {reqs.static, reqs.dynamic}
         THEN rejected(<<"request failed">>)
    ELSE IF reqs.static = "fulfilled" /\ reqs.dynamic = "fulfilled"
         THEN fetchValidated(fetchData(staticItems, dynamicItems, ref))
    ELSE p

\* most items in the upstream's static list
MaxItems == 2

\* the static items of id k: a lift and a run with a length, a lift and a run
\* of length 0, a point of interest, and a lift without a name
StaticItemsAt(k) ==
    { [id |-> k, name |-> n, type |-> t[1], liftType |-> t[2], trailLevel |-> t[3],
       length |-> len] :
        n \in {Lac}, len \in {<<0>>, <<1500>>},
        t \in {<<"LIFT", "GONDOLA", "">>, <<"TRAIL", "", "BLUE">>} }
    \cup { [id |-> k, name |-> Lac, type |-> "POI", liftType |-> "",
            trailLevel |-> "", length |-> <<>>],
           [id |-> k, name |-> <<>>, type |-> "LIFT", liftType |-> "DRAG_LIFT",
            trailLevel |-> "", length |-> <<>>] }

StaticLists ==
    UNION {{items \in [1..n -> UNION {StaticItemsAt(k) : k \in 1..n}] :
                \A k \in 1..n : items[k].id = k} : n \in 0..MaxItems}

\* the opening statuses the upstream reports; "none" is an id without entry
OpeningStatuses == {"none", "OPEN", "FORECAST", "DELAYED", "CLOSED"}

dynamicItemsOf(f) ==
    LET ids == SelectSeq([k \in 1..MaxItems |-> k], LAMBDA k : f[k] # "none")
    IN  [j \in 1..Len(ids) |-> [id |-> ids[j], openingStatus |-> f[ids[j]]]]

DynamicLists == {dynamicItemsOf(f) : f \in [1..MaxItems -> OpeningStatuses]}

\* the reference data: no table for the resort, or a gondola and a run "Lac"
RefDataSets ==
    { NoRefData,
      [lifts |-> <<[id |-> 1, name |-> LAC, lift_type |-> "gondola", difficulty |-> ""]>>,
       runs |-> <<[id |-> 1, name |-> LeLac, lift_type |-> "", difficulty |-> "easy"]>>] }

-----------------------------------------------------------------------------
(* normalizeStatus of the config runner                                     *)
(* (src/src/ski_lift_status/configs/runner.js).  A raw value is the string  *)
(* String(raw) and whether !raw holds (0, false, null, undefined and "").   *)

STATUS_OPEN ==
    <<<<"o", "p", "e", "n">>, <<"o", "u", "v", "e", "r", "t">>, <<"a", "p", "e", "r", "t", "o">>, <<"o", "f", "f", "e", "n">>, <<"a", "b", "i", "e", "r", "t", "o">>, <<"O">>, <<"A">>, <<"1">>>>

STATUS_SCHEDULED ==
    <<<<"s", "c", "h", "e", "d", "u", "l", "e", "d">>, <<"p", "r", "e", "v", "i", "s", "i", "o", "n">>, <<"p", "r", "o", "g", "r", "a", "m", "m", "a", "t", "o">>, <<"g", "e", "p", "l", "a", "n", "t">>, <<"P">>>>

\* list.some(x => s.includes(x.toLowerCase()))
someIncluded(list, s) ==
    \E i \in 1..Len(list) : includes(s, toLowerCase(list[i]))

runnerNormalizeStatus(r) ==
    IF r.falsy THEN "closed"
    ELSE IF someIncluded(STATUS_OPEN, trim(toLowerCase(r.string))) THEN "open"
    ELSE IF someIncluded(STATUS_SCHEDULED, trim(toLowerCase(r.string))) THEN "scheduled"
    ELSE "closed"

stringValue(str) == [string |-> str, falsy |-> str = <<>>]

\* the raw values of the status table of the debugging guide, with the status
\* the table gives them
StatusTable ==
    {<<<<"O">>, "open">>,
     <<<<"o", "p", "e", "n">>, "open">>,
     <<<<"o", "p", "e", "n", "e", "d">>, "open">>,
     <<<<"1">>, "open">>,
     <<<<"t", "r", "u", "e">>, "open">>,
     <<<<"g", "r", "e", "e", "n">>, "open">>,
     <<<<"F">>, "closed">>,
     <<<<"c", "l", "o", "s", "e", "d">>, "closed">>,
     <<<<"0">>, "closed">>,
     <<<<"f", "a", "l", "s", "e">>, "closed">>,
     <<<<"r", "e", "d">>, "closed">>,
     <<<<"P">>, "scheduled">>,
     <<<<"s", "c", "h", "e", "d", "u", "l", "e", "d">>, "scheduled">>,
     <<<<"p", "l", "a", "n", "n", "e", "d">>, "scheduled">>,
     <<<<"e", "x", "p", "e", "c", "t", "e", "d">>, "scheduled">>,
     <<<<"o", "u", "v", "e", "r", "t">>, "open">>,
     <<<<"o", "f", "f", "e", "n">>, "open">>,
     <<<<"a", "p", "e", "r", "t", "o">>, "open">>,
     <<<<"f", "e", "r", "m", "e_acute">>, "closed">>,
     <<<<"g", "e", "s", "c", "h", "l", "o", "s", "s", "e", "n">>, "closed">>,
     <<<<"c", "h", "i", "u", "s", "o">>, "closed">>}

\* the values that are no strings: 1, true, 0, false and undefined
OtherRawValues ==
    {[string |-> <<"1">>, falsy |-> FALSE], [string |-> <<"t", "r", "u", "e">>, falsy |-> FALSE],
     [string |-> <<"0">>, falsy |-> TRUE], [string |-> <<"f", "a", "l", "s", "e">>, falsy |-> TRUE],
     [string |-> <<>>, falsy |-> TRUE]}

\* longest raw string made of the letters of the one-letter codes
MaxRawLen == 2

RawLetters == {"O", "A", "P", "F", "1", " "}

RawValues ==
    {stringValue(t[1]) : t \in StatusTable} \cup OtherRawValues
        \cup {stringValue(str) : str \in UNION {[1..n -> RawLetters] : n \in 0..MaxRawLen}}

NoRaw == [string |-> <<>>, falsy |-> TRUE]

-----------------------------------------------------------------------------
(* The config runner: extractResort, runAll and the --all summary           *)
(* (src/src/ski_lift_status/configs/runner.js).  Resort ids are numbered,   *)
(* 0 is an id no resort has.  A result is the object an extraction gives:   *)
(* error is "" when the object has no error, lifts and runs are the counts  *)
(* r.lifts?.length || 0 and r.runs?.length || 0.                            *)

CONCURRENCY_LIMIT == 20

\* the count of the test liftCount <= 2 && runCount <= 2
MinimumCount == 2

errorValue(message) ==
    [error |-> message, note |-> FALSE, requiresBrowserRendering |-> FALSE,
     lifts |-> 0, runs |-> 0]

dataValue(liftCount, runCount) ==
    [error |-> "", note |-> FALSE, requiresBrowserRendering |-> FALSE,
     lifts |-> liftCount, runs |-> runCount]

\* { lifts: [], runs: [], note: ... } of an extractor that found nothing
noteValue ==
    [error |-> "", note |-> TRUE, requiresBrowserRendering |-> FALSE,
     lifts |-> 0, runs |-> 0]

browserRenderingValue ==
    [error |-> "", note |-> TRUE, requiresBrowserRendering |-> TRUE,
     lifts |-> 0, runs |-> 0]

\* the platforms the switch of extractResort has a case for
Platforms == {"lumiplan", "skiplan"}

notStarted == [state |-> "none", value |-> errorValue("")]

pendingExtraction == [state |-> "pending", value |-> errorValue("")]

resolvedWith(value) == [state |-> "fulfilled", value |-> value]

rejectedWith(message) == [state |-> "rejected", value |-> errorValue(message)]

\* resorts.find(r => r.id === resortId), 0 when there is none
findById(rs, resortId) ==
    IF \E k \in 1..Len(rs) : rs[k].id = resortId
    THEN CHOOSE k \in 1..Len(rs) :
            /\ rs[k].id = resortId
            /\ \A j \in 1..(k - 1) : rs[j].id # resortId
    ELSE 0

\* the promise of extractResort without its try/catch
extractResortUncaught(rs, resortId, behaviour) ==
    IF findById(rs, resortId) = 0 THEN resolvedWith(errorValue("Resort not found"))
    ELSE IF rs[findById(rs, resortId)].requiresBrowserRendering
    THEN resolvedWith(browserRenderingValue)
    ELSE IF rs[findById(rs, resortId)].platform \notin Platforms
    THEN resolvedWith(errorValue("Unknown platform"))
    ELSE IF behaviour.throws THEN rejectedWith(behaviour.value.error)
    ELSE resolvedWith(behaviour.value)

\* the promise extractResort(resortId) settles to when the platform extractor
\* behaves as behaviour
extractResort(rs, resortId, behaviour) ==
    IF findById(rs, resortId) = 0 THEN resolvedWith(errorValue("Resort not found"))
    ELSE IF rs[findById(rs, resortId)].requiresBrowserRendering
    THEN resolvedWith(browserRenderingValue)
    ELSE IF rs[findById(rs, resortId)].platform \notin Platforms
    THEN resolvedWith(errorValue("Unknown platform"))
    ELSE IF behaviour.throws THEN resolvedWith(errorValue(behaviour.value.error))
    ELSE resolvedWith(behaviour.value)

\* resorts.slice(i, i + CONCURRENCY_LIMIT) taking every resort at once
batchOfAll(i, n) == (i + 1)..n

\* the positions of resorts.slice(i, i + CONCURRENCY_LIMIT)
batchOf(i, n) == (i + 1)..Min2(i + CONCURRENCY_LIMIT, n)

\* the element of batchResults for the resort at position k: the result, or
\* { error: e.message } when the extraction rejected
batchResult(exs, k) == exs[k].value

\* results after the loop over batchResults: a later resort with the same id
\* overwrites an earlier one
resultsAfter(old, rs, exs, batch) ==
    [id \in DOMAIN old \cup {rs[k].id : k \in batch} |->
        IF \E k \in batch : rs[k].id = id
        THEN batchResult(exs, CHOOSE k \in batch :
                                /\ rs[k].id = id
                                /\ \A j \in batch : rs[j].id = id => j <= k)
        ELSE old[id]]

\* the filter of insufficientData
insufficient(r) ==
    /\ ~(r.error # "" \/ r.note \/ r.requiresBrowserRendering)
    /\ r.lifts <= MinimumCount /\ r.runs <= MinimumCount

insufficientDataOf(rr) == {id \in DOMAIN rr : insufficient(rr[id])}

\* the resort id of each extractResort call: every resort with --all, the
\* argument otherwise
callIds(rs, a) == IF a.all THEN idsOf(rs) ELSE <<a.id>>

NoArg == [all |-> FALSE, id |-> 0]

AllArg == [all |-> TRUE, id |-> 0]

\* most resorts of a configuration with a single batch
MaxConfigured == 2

\* most pending extractions an extraction settles ahead of
MaxOvertaking == 3

\* the pending extractions that started before the extraction at position k
overtaken(exs, k) == Cardinality({j \in 1..(k - 1) : exs[j].state = "pending"})

Counts == {0, MinimumCount, MinimumCount + 1}

ReturnedValues ==
    {dataValue(l, r) : l \in Counts, r \in Counts}
        \cup {noteValue, errorValue("Failed to parse")}

ExtractorBehaviours ==
    {[throws |-> FALSE, value |-> v] : v \in ReturnedValues}
        \cup {[throws |-> TRUE, value |-> errorValue("Request timed out")]}

DefaultBehaviour == [throws |-> FALSE, value |-> dataValue(MinimumCount + 1, MinimumCount + 1)]

\* the resort at position k: its own id or the id of the first resort
ResortsAt(k) ==
    {[id |-> id, platform |-> p, requiresBrowserRendering |-> b] :
        id \in {1, k}, p \in {"lumiplan"}, b \in BOOLEAN}
    \cup {[id |-> id, platform |-> "other", requiresBrowserRendering |-> FALSE] :
            id \in {1, k}}

ShortConfigurations ==
    UNION {{rs \in [1..n -> UNION {ResortsAt(k) : k \in 1..n}] :
                \A k \in 1..n : rs[k] \in ResortsAt(k)} : n \in 0..MaxConfigured}

\* one resort more than a batch holds, all of a supported platform
LongConfiguration ==
    [k \in 1..(CONCURRENCY_LIMIT + 1) |->
        [id |-> k, platform |-> "lumiplan", requiresBrowserRendering |-> FALSE]]

\* the extractor is only run for a resort of a supported platform
runsExtractor(rs, id) ==
    /\ findById(rs, id) # 0
    /\ ~rs[findById(rs, id)].requiresBrowserRendering
    /\ rs[findById(rs, id)].platform \in Platforms

BehavioursFor(rs, ids) ==
    {bs \in [1..Len(ids) -> ExtractorBehaviours] :
        \A k \in 1..Len(ids) : ~runsExtractor(rs, ids[k]) => bs[k] = DefaultBehaviour}

-----------------------------------------------------------------------------
(* The HTTP helper: fetchUrl of src/src/fetchers/lumiplan/api.ts and fetch  *)
(* of src/src/ski_lift_status/configs/runner.js.  URLs are numbered; the   *)
(* server answers a request for a URL with a body, with a 3xx response and *)
(* a location, with a network error, or not at all.                         *)

NoHttpPromise == [state |-> "none", value |-> "none"]

pendingHttpPromise == [state |-> "pending", value |-> "none"]

\* resolve(value) and reject(value): a settled promise stays as it is
settleWith(p, state, value) ==
    IF p.state = "pending" THEN [state |-> state, value |-> value] ELSE p

\* most URLs the server knows
MaxUrls == 3

Urls == 1..MaxUrls

ServerBehaviours ==
    {[kind |-> k, location |-> 0] : k \in {"body", "error", "timeout"}}
        \cup {[kind |-> "redirect", location |-> u] : u \in Urls}

Servers == [Urls -> ServerBehaviours]

mapIdle == onlineNames = <<>> /\ results = NoResults

parseIdle == csvFile = NoFile /\ parsedRows = <<>> /\ droppedCount = 0

resortIdle == RESORTS = SupportedResorts /\ identifier = "" /\ resort = 0

fetchIdle ==
    /\ staticData = <<>> /\ dynamicData = <<>> /\ refData = NoRefData
    /\ requests = NoRequests /\ fetcher = FALSE /\ promise = NoPromise

statusIdle ==
    raw = NoRaw /\ normalizedStatus = ""

runIdle ==
    /\ resorts = <<>> /\ behaviours = <<>> /\ arg = NoArg /\ batchStart = 0
    /\ extractions = <<>> /\ runResults = <<>> /\ insufficientData = {}
    /\ exitCode = 0

httpIdle ==
    /\ server = <<>> /\ requestUrl = 0 /\ request = "none"
    /\ httpPromise = NoHttpPromise /\ redirects = FALSE

restIdle == fetchIdle /\ statusIdle /\ runIdle /\ httpIdle

moreIdle == mapIdle /\ parseIdle /\ resortIdle /\ restIdle

Init ==
    /\ pc = "ready"
    /\ referenceData \in RefLists
    /\ name = <<>>
    /\ hint = NoHint
    /\ candidates = <<>>
    /\ result = <<>>
    /\ normIdle
    /\ loadIdle
    /\ moreIdle

\* one call findMatches(name, referenceData, hint)
FindMatches ==
    /\ pc = "ready"
    /\ \E n \in RecordNames, h \in Hints :
        /\ pc' = "findMatches"
        /\ name' = n
        /\ hint' = h
        /\ candidates' = candidatesOf(n, referenceData)
        /\ result' = findMatches(n, referenceData, h)
        /\ referenceData' = referenceAfterFindMatches(n, referenceData, h)
        /\ UNCHANGED <<normVars, loadVars, moreVars>>

\* the caller's loop goes on to its next record
NextRecord ==
    /\ pc = "findMatches"
    /\ pc' = "ready"
    /\ name' = <<>>
    /\ hint' = NoHint
    /\ candidates' = <<>>
    /\ result' = <<>>
    /\ UNCHANGED <<referenceData, normVars, loadVars, moreVars>>

Next == FindMatches \/ NextRecord

Spec == Init /\ [][Next]_vars

-----------------------------------------------------------------------------
(* normalizeName and fuzzyScore applied to their arguments                 *)

InitNorm ==
    /\ pc = "start"
    /\ \E p \in ArgumentPairs : str1 = p[1] /\ str2 = p[2]
    /\ out1 = <<>> /\ out2 = <<>> /\ score = 0
    /\ matchIdle
    /\ loadIdle
    /\ moreIdle

NormalizeName ==
    /\ pc = "start"
    /\ pc' = "normalized"
    /\ out1' = normalizeName(str1)
    /\ UNCHANGED <<str1, str2, out2, score, matchVars, loadVars, moreVars>>

\* normalizeName applied to its own result
NormalizeAgain ==
    /\ pc = "normalized"
    /\ pc' = "renormalized"
    /\ out2' = normalizeName(out1)
    /\ UNCHANGED <<str1, str2, out1, score, matchVars, loadVars, moreVars>>

FuzzyScore ==
    /\ pc = "start"
    /\ pc' = "scored"
    /\ score' = fuzzyScore(str1, str2)
    /\ UNCHANGED <<str1, str2, out1, out2, matchVars, loadVars, moreVars>>

NextNorm == NormalizeName \/ NormalizeAgain \/ FuzzyScore

SpecNorm == InitNorm /\ [][NextNorm]_vars

-----------------------------------------------------------------------------
(* loadReferenceData applied to the parsed tables                          *)

InitLoad ==
    /\ pc = "start"
    /\ \E k \in 0..MaxRows, m \in 0..MaxRows :
        /\ k + m <= MaxRows
        /\ allLifts \in RowsOfLen(k)
        /\ allRuns \in RowsOfLen(m)
    /\ openskimapId \in Requests
    /\ loaded = NothingLoaded
    /\ normIdle
    /\ matchIdle
    /\ moreIdle

LoadReferenceData ==
    /\ pc = "start"
    /\ pc' = "referenceLoaded"
    /\ loaded' = loadReferenceData(openskimapId, allLifts, allRuns)
    /\ UNCHANGED <<allLifts, allRuns, openskimapId, normVars, matchVars, moreVars>>

NextLoad == LoadReferenceData

SpecLoad == InitLoad /\ [][NextLoad]_vars

-----------------------------------------------------------------------------
(* parseCSV applied to a reference table                                   *)

InitParse ==
    /\ pc = "start"
    /\ csvFile \in CsvFiles
    /\ parsedRows = <<>>
    /\ droppedCount = 0
    /\ normIdle
    /\ matchIdle
    /\ loadIdle
    /\ mapIdle
    /\ resortIdle
    /\ restIdle

\* one call parseCSV(filepath); the function keeps no count of the lines it
\* does not push
ParseCSV ==
    /\ pc = "start"
    /\ pc' = "parsed"
    /\ parsedRows' = parseCSV(csvFile)
    /\ UNCHANGED <<csvFile, droppedCount, normVars, matchVars, loadVars, mapVars,
                   resortVars, restVars>>

NextParse == ParseCSV

SpecParse == InitParse /\ [][NextParse]_vars

-----------------------------------------------------------------------------
(* The scenarios: records of the scenario names resolved against catalogs  *)
(* of the scenario entities                                                *)

InitScenario ==
    /\ pc = "ready"
    /\ referenceData \in ScenarioRefLists
    /\ name = <<>>
    /\ hint = NoHint
    /\ candidates = <<>>
    /\ result = <<>>
    /\ normIdle
    /\ loadIdle
    /\ moreIdle

\* one call findMatches(name, referenceData, hint) for a scenario record
FindMatchesScenario ==
    /\ pc = "ready"
    /\ \E n \in ScenarioRecordNames, h \in ScenarioHints :
        /\ pc' = "findMatches"
        /\ name' = n
        /\ hint' = h
        /\ candidates' = candidatesOf(n, referenceData)
        /\ result' = findMatches(n, referenceData, h)
        /\ referenceData' = referenceAfterFindMatches(n, referenceData, h)
        /\ UNCHANGED <<normVars, loadVars, moreVars>>

\* one call mapNames(onlineNames, referenceData)
MapNames ==
    /\ pc = "ready"
    /\ \E names \in OnlineNameLists :
        /\ pc' = "mapNames"
        /\ onlineNames' = names
        /\ results' = mapNames(names, referenceData)
        /\ referenceData' = referenceAfterMapNames(names, referenceData)
        /\ UNCHANGED <<name, hint, candidates, result, normVars, loadVars, parseVars,
                     resortVars, restVars>>

\* the caller goes on to its next list of names
NextNames ==
    /\ pc = "mapNames"
    /\ pc' = "ready"
    /\ onlineNames' = <<>>
    /\ results' = NoResults
    /\ UNCHANGED <<matchVars, normVars, loadVars, parseVars, resortVars,
                 restVars>>

NextScenario == FindMatchesScenario \/ NextRecord \/ MapNames \/ NextNames

SpecScenario == InitScenario /\ [][NextScenario]_vars

-----------------------------------------------------------------------------
(* Properties of findMatches (checked under Spec)                          *)

called == pc = "findMatches"

\* the reference entity a returned id names (an id is a catalog position)
entityOf(id) == referenceData[id]

named(e) == e.name # <<>>
exactName(e) == named(e) /\ LowerCaseOf[e.name] = LowerCaseOf[name]
normalizedName(e) == named(e) /\ NormalizedOf[e.name] = NormalizedOf[name]
fuzzyName(e) == named(e) /\ FuzzyScoreOf[<<name, e.name>>] >= FuzzyThreshold

someEntity(P(_)) == \E i \in 1..Len(referenceData) : P(referenceData[i])
everyReturned(P(_)) == \A k \in 1..Len(result) : P(entityOf(result[k]))

\* the hint carries a value, and the attribute it is compared with
hintPresent == hint.type # "" \/ hint.difficulty # ""
hintValue == IF hint.type # "" THEN hint.type ELSE hint.difficulty
hintedAttribute(c) == IF hint.type # "" THEN c.lift_type ELSE c.difficulty

candidatesWhere(P(_)) == SelectSeq(candidates, P)
equalsHint(c) == hintedAttribute(c) = hintValue
lacksAttribute(c) == hintedAttribute(c) = ""

\* C1: the tiers are a strict cascade. If some entity's name equals the record
\* name up to case, every returned id names such an entity, whatever else
\* would qualify by fuzzy score; if none does but some entity has the same
\* normalized name, every returned id names an entity with that normalized
\* name.
C1_StrictCascade ==
    called =>
        /\ someEntity(exactName) => everyReturned(exactName)
        /\ (~someEntity(exactName) /\ someEntity(normalizedName))
              => everyReturned(normalizedName)

\* C1 witness: an exact-name entity is returned while another entity of the
\* pool, not an exact match, reaches the fuzzy threshold.
C1_Witness ==
    /\ called
    /\ result # <<>>
    /\ someEntity(exactName)
    /\ someEntity(LAMBDA e : ~exactName(e) /\ ~normalizedName(e) /\ fuzzyName(e))

\* C2: disambiguation never loses everything: a non-empty candidate set gives
\* a non-empty result.
C2_NeverEmpty == (called /\ candidates # <<>>) => result # <<>>

\* C2 witness: several candidates, a hint, and no candidate passes the filter.
C2_Witness ==
    /\ called
    /\ Len(candidates) > 1
    /\ hintPresent
    /\ \A k \in 1..Len(candidates) :
          ~lacksAttribute(candidates[k]) /\ ~equalsHint(candidates[k])
    /\ result # <<>>

\* C3 as stated: with several candidates, a hint, and a candidate whose
\* attribute equals the hint, exactly the candidates whose attribute equals
\* the hint are returned.
C3_OnlyEqualReturned ==
    (called /\ Len(candidates) > 1 /\ hintPresent
        /\ candidatesWhere(equalsHint) # <<>>)
    => result = idsOf(candidatesWhere(equalsHint))

\* C3 amended: with several candidates, a hint of one kind, and a candidate
\* whose attribute equals the hint, exactly the candidates whose attribute
\* equals the hint or is missing are returned.
C3_EqualOrMissingReturned ==
    (called /\ Len(candidates) > 1 /\ hintPresent
        /\ candidatesWhere(equalsHint) # <<>>)
    => result = idsOf(candidatesWhere(LAMBDA c : equalsHint(c) \/ lacksAttribute(c)))

\* C3 witness: two candidates and a hint; one candidate's attribute equals the
\* hint, the other has no such attribute, and both are returned.
C3_Witness ==
    /\ called
    /\ Len(candidates) = 2
    /\ hintPresent
    /\ equalsHint(candidates[1])
    /\ lacksAttribute(candidates[2])
    /\ result = <<candidates[1].id, candidates[2].id>>

\* C4 as stated: with several candidates, a hint, and no candidate whose
\* attribute equals the hint, all candidates are returned.
C4_FallbackToAll ==
    (called /\ Len(candidates) > 1 /\ hintPresent
        /\ candidatesWhere(equalsHint) = <<>>)
    => result = idsOf(candidates)

\* C4 amended: with several candidates, a hint of one kind, and no candidate
\* whose attribute equals the hint, the candidates that lack the attribute are
\* returned if there are any, and all candidates otherwise.
C4_FallbackToMissingOrAll ==
    (called /\ Len(candidates) > 1 /\ hintPresent
        /\ candidatesWhere(equalsHint) = <<>>)
    => result = IF candidatesWhere(lacksAttribute) # <<>>
                THEN idsOf(candidatesWhere(lacksAttribute))
                ELSE idsOf(candidates)

\* C4 witness: two candidates that both carry an attribute different from the
\* hint, and both are returned.
C4_Witness ==
    /\ called
    /\ Len(candidates) = 2
    /\ hintPresent
    /\ \A k \in 1..2 : ~equalsHint(candidates[k]) /\ ~lacksAttribute(candidates[k])
    /\ Len(result) = 2

\* C5: when no entity matches exactly or after normalizing, the candidates
\* are exactly the named entities whose fuzzy score is at least 75, in
\* reference order.
C5_FuzzyKeepsAll ==
    (called /\ ~someEntity(exactName) /\ ~someEntity(normalizedName))
    => candidates = SelectSeq(referenceData, fuzzyName)

\* C5 witness: the fuzzy tier keeps two candidates with different scores.
C5_Witness ==
    /\ called
    /\ ~someEntity(exactName) /\ ~someEntity(normalizedName)
    /\ Len(candidates) = 2
    /\ FuzzyScoreOf[<<name, candidates[1].name>>]
          # FuzzyScoreOf[<<name, candidates[2].name>>]

\* C8: a name that normalizes to the empty string never takes part in
\* matching: such a record gets no id, and no returned entity has such a name.
C8_EmptyNeverMatches ==
    called =>
        /\ NormalizedOf[name] = <<>> => result = <<>>
        /\ everyReturned(LAMBDA e : NormalizedOf[e.name] # <<>>)

\* C13: no match is a normal result. Every call returns a list of ids of the
\* catalog; the list is empty when no entity matches the record name in any
\* tier, and in particular when the reference list is empty.
C13_NoMatchIsEmpty ==
    called =>
        /\ \A k \in 1..Len(result) : result[k] \in 1..Len(referenceData)
        /\ (~someEntity(exactName) /\ ~someEntity(normalizedName)
               /\ ~someEntity(fuzzyName)) => result = <<>>
        /\ referenceData = <<>> => result = <<>>

\* C13 witness: a named record resolved against named entities none of which
\* matches it in any tier, with an empty result.
C13_Witness ==
    /\ called
    /\ name # <<>>
    /\ Len(referenceData) = 2
    /\ \A i \in 1..Len(referenceData) : named(referenceData[i])
    /\ ~someEntity(exactName) /\ ~someEntity(normalizedName) /\ ~someEntity(fuzzyName)
    /\ result = <<>>

\* C10: with several candidates and no hint, the ids of all candidates are
\* returned.
C10_NoHintKeepsAll ==
    (called /\ Len(candidates) > 1 /\ ~hintPresent) => result = idsOf(candidates)

\* C10 witness: two entities of the same name, no hint, both returned.
C10_Witness ==
    /\ called
    /\ ~hintPresent
    /\ Len(candidates) = 2
    /\ candidates[1].name = candidates[2].name
    /\ result = <<candidates[1].id, candidates[2].id>>

-----------------------------------------------------------------------------
(* Properties of normalizeName and fuzzyScore (checked under SpecNorm)     *)

\* C6: normalizeName is idempotent.
C6_Idempotent == pc = "renormalized" => out2 = out1

scoredCombeFolle == pc = "scored" /\ str1 = TSDCombeFolle /\ str2 = CombeFolle

\* C7 as stated: fuzzyScore("TSD Combe Folle", "Combe Folle") is at least 75.
C7_CombeFolleQualifies == scoredCombeFolle => score >= FuzzyThreshold

\* C7 amended: fuzzyScore("TSD Combe Folle", "Combe Folle") is 73, the
\* containment score round(100 * 11 / 15), which is below the threshold of 75.
C7_CombeFolleScores73 == scoredCombeFolle => (score = 73 /\ score < FuzzyThreshold)

\* C7 witness: the score of the two names has been computed.
C7_Witness == scoredCombeFolle /\ includes(normalizeName(str1), normalizeName(str2))

\* The algorithm of the specification, written out step by step.
\* trim: the part between the first and the last character that is not
\* white space
refTrim(s) ==
    LET solid == {i \in 1..Len(s) : s[i] \notin WhiteSpace}
    IN  IF solid = {} THEN <<>>
        ELSE SubSeq(s, CHOOSE i \in solid : \A j \in solid : i <= j,
                       CHOOSE i \in solid : \A j \in solid : j <= i)

refLower(s) == [i \in 1..Len(s) |-> IF s[i] \in DOMAIN LowerOf THEN LowerOf[s[i]] ELSE s[i]]

RefArticles ==
    { <<"l", "e">>, <<"l", "a">>, <<"l", "e", "s">>, <<"l", "'">>,
      <<"t", "h", "e">>, <<"d", "e", "r">>, <<"d", "i", "e">>, <<"d", "a", "s">> }

\* strip one leading article, only when white space follows it, together
\* with that white space
refStrip(s) ==
    LET found == {a \in RefArticles :
                    /\ Len(s) > Len(a)
                    /\ SubSeq(s, 1, Len(a)) = a
                    /\ s[Len(a) + 1] \in WhiteSpace}
    IN  IF found = {} THEN s
        ELSE LET a == CHOOSE x \in found : TRUE
                 rest == {i \in (Len(a) + 1)..Len(s) : s[i] \notin WhiteSpace}
             IN  IF rest = {} THEN <<>>
                 ELSE SubSeq(s, CHOOSE i \in rest : \A j \in rest : i <= j, Len(s))

\* collapse each run of hyphens, underscores and white space to one space:
\* the first character of a run becomes the space, the others go
refCollapse(s) ==
    LET inRun(i) == s[i] \in {"-", "_"} \cup WhiteSpace
        marked == [i \in 1..Len(s) |->
                      IF ~inRun(i) THEN s[i]
                      ELSE IF i > 1 /\ inRun(i - 1) THEN "dropped" ELSE " "]
    IN  SelectSeq(marked, LAMBDA c : c # "dropped")

\* fold the accented letters of the table to their base letter
refFold(s) ==
    [i \in 1..Len(s) |->
        CASE s[i] \in {"e_acute", "e_grave", "e_circ", "e_diaer"} -> "e"
          [] s[i] \in {"a_grave", "a_circ", "a_diaer"} -> "a"
          [] s[i] \in {"u_diaer", "u_grave"} -> "u"
          [] s[i] \in {"o_diaer", "o_circ"} -> "o"
          [] s[i] = "c_cedil" -> "c"
          [] s[i] = "n_tilde" -> "n"
          [] OTHER -> s[i]]

referenceNormalize(s) == refTrim(refFold(refCollapse(refStrip(refLower(refTrim(s))))))

Menuires == <<"m", "e", "n", "u", "i", "r", "e", "s">>
TelepheriqueFolded ==
    <<"t", "e", "l", "e", "p", "h", "e", "r", "i", "q", "u", "e">>

\* C17: normalizeName is the algorithm of the specification (trim, lowercase,
\* strip one leading article followed by white space, collapse runs of
\* separators, fold accents, trim) on every input; "Les Menuires" gives
\* "menuires", "T\'el\'eph\'erique" gives "telepherique", and "Lesotho" keeps
\* its first letters.
C17_NormalizeIsReference ==
    pc = "normalized" =>
        /\ out1 = referenceNormalize(str1)
        /\ str1 = LesMenuires => out1 = Menuires
        /\ str1 = Telepherique => out1 = TelepheriqueFolded
        /\ str1 = Lesotho => out1 = toLowerCase(Lesotho)

\* C17 witness: "Les Menuires" has been normalized to "menuires".
C17_Witness == pc = "normalized" /\ str1 = LesMenuires /\ out1 = Menuires

\* round(100 * num / den) in exact arithmetic, halves rounded up
exactRoundPercent(num, den) == (200 * num + den) \div (2 * den)

\* the score of the specification for the normalized strings s1 and s2
specScore(s1, s2) ==
    LET shorter == Min2(Len(s1), Len(s2))
        longer  == Max2(Len(s1), Len(s2))
    IN  IF s1 = s2 THEN 100
        ELSE IF includes(s1, s2) \/ includes(s2, s1)
             THEN exactRoundPercent(shorter, longer)
             ELSE exactRoundPercent(longer - levenshtein(s1, s2), longer)

\* C18: fuzzyScore(a, b) is an integer from 0 to 100: 100 when the
\* normalized strings are equal, round(100 * len(shorter) / len(longer))
\* when one contains the other, and round(100 * (1 - d / max(len))) for the
\* edit distance d otherwise.
C18_ScoreIsFormula ==
    pc = "scored" =>
        /\ score \in 0..100
        /\ score = specScore(normalizeName(str1), normalizeName(str2))

-----------------------------------------------------------------------------
(* Properties of loadReferenceData (checked under SpecLoad)                *)

listed(row) ==
    \E k \in 1..Len(requestedIds(openskimapId)) :
        requestedIds(openskimapId)[k] \in scopeIdsOf(row)

inLoaded(rows, row) == \E k \in 1..Len(rows) : rows[k] = row

\* C9: a row is retained if and only if one of the requested ids is an
\* element of its list of ski area ids.
C9_RetainsListedRows ==
    pc = "referenceLoaded" =>
        /\ \A i \in 1..Len(allLifts) :
              inLoaded(loaded.lifts, allLifts[i]) <=> listed(allLifts[i])
        /\ \A i \in 1..Len(allRuns) :
              inLoaded(loaded.runs, allRuns[i]) <=> listed(allRuns[i])

-----------------------------------------------------------------------------
(* The scenarios of the specification (checked under SpecScenario)         *)

LiftA ==
    [id |-> 1, name |-> TelecabineDeCaronAccented, lift_type |-> "gondola",
     difficulty |-> ""]
LiftB ==
    [id |-> 2, name |-> TelecabineDeCaronAccented, lift_type |-> "chair_lift",
     difficulty |-> ""]

scenarioA ==
    /\ called
    /\ referenceData = <<LiftA, LiftB>>
    /\ name = TelecabineDeCaron
    /\ hint = [type |-> "chair_lift", difficulty |-> ""]

\* C11: Scenario A. With the entities A (gondola) and B (chair_lift), both
\* named "T\'el\'ecabine de Caron", the record "Telecabine de Caron" with the
\* type hint chair_lift has no exact match, has both A and B as candidates of
\* the normalized tier, and gets exactly the id of B.
C11_ScenarioA ==
    scenarioA =>
        /\ ~someEntity(exactName)
        /\ candidates = <<LiftA, LiftB>>
        /\ \A k \in 1..Len(candidates) : normalizedName(candidates[k])
        /\ result = <<LiftB.id>>

\* C11 witness: the record of scenario A has been resolved against A and B,
\* with two candidates and one returned id.
C11_Witness == scenarioA /\ Len(candidates) = 2 /\ Len(result) = 1

mapped == pc = "mapNames"

\* the entities named "Les Cascades", and the catalogs with exactly one
entitiesX == {i \in 1..Len(referenceData) : referenceData[i].name = LesCascades}
oneX == Cardinality(entitiesX) = 1
entityX == referenceData[CHOOSE i \in entitiesX : TRUE]

\* C12: Scenario C. With one entity X named "Les Cascades" (and none named
\* "Cascades"), findMatches for the record "Cascades" has no exact candidate,
\* takes its candidates from the normalized tier and returns exactly the id
\* of X; mapNames maps the name "Cascades" to X with match_type 'normalized'.
C12_ScenarioC ==
    oneX =>
        /\ (called /\ name = Cascades) =>
              /\ exactCandidates(name, referenceData) = <<>>
              /\ candidates = normalizedCandidates(name, referenceData)
              /\ result = <<entityX.id>>
        /\ mapped =>
              /\ \A k \in 1..Len(onlineNames) : onlineNames[k] = Cascades =>
                    \E m \in 1..Len(results.mapped) :
                        results.mapped[m].online_name = Cascades
              /\ \A m \in 1..Len(results.mapped) :
                    results.mapped[m].online_name = Cascades =>
                        /\ results.mapped[m].match_type = "normalized"
                        /\ results.mapped[m].openskimap_id = entityX.id

\* C12 witness: the record "Cascades" has been resolved against a catalog
\* that holds X and another lift, and the id of X is returned.
C12_Witness ==
    /\ called
    /\ name = Cascades
    /\ oneX
    /\ Len(referenceData) = 2
    /\ Len(candidates) = 1
    /\ result = <<entityX.id>>

-----------------------------------------------------------------------------
(* Properties of mapNames (checked under SpecScenario)                     *)

\* the reference entities some entry of results.mapped names
matchedEntities ==
    {i \in 1..Len(referenceData) :
        \E m \in 1..Len(results.mapped) :
            results.mapped[m].openskimap_id = referenceData[i].id}

\* C14: the coverage mapNames computes is a number between 0 and 100, and it
\* is 0 when the reference list is empty.
C14_CoverageInRange ==
    mapped =>
        /\ results.coverage.den > 0
        /\ 0 <= results.coverage.num
        /\ results.coverage.num <= 100 * results.coverage.den
        /\ referenceData = <<>> => results.coverage.num = 0

\* C14 witness: names mapped against an empty reference list, coverage 0.
C14_Witness ==
    /\ mapped
    /\ referenceData = <<>>
    /\ Len(onlineNames) = MaxNames
    /\ results.unmappedCount > 0
    /\ results.coverage.num = 0

\* C15: coverage counts each reference entity at most once: for a reference
\* list that is not empty, coverage is 100 times the number of reference
\* entities matched by some extracted name, over the number of reference
\* entities.
C15_CountsDistinctEntities ==
    (mapped /\ referenceData # <<>>) =>
        /\ results.coverage.num = 100 * Cardinality(matchedEntities)
        /\ results.coverage.den = Len(referenceData)

\* C15 witness: two extracted names are mapped to the same entity, which adds
\* one to the numerator.
C15_Witness ==
    /\ mapped
    /\ Len(results.mapped) = 2
    /\ results.mapped[1].openskimap_id = results.mapped[2].openskimap_id
    /\ results.mapped[1].online_name # results.mapped[2].online_name
    /\ results.coverage.num = 100

-----------------------------------------------------------------------------
(* Properties of parseCSV (checked under SpecParse)                        *)

wellFormed(line) == parseCSVRow(line).id # <<>> /\ parseCSVRow(line).name # <<>>

\* C16: a line without id or name is dropped and counted: the returned rows
\* are the well-formed lines, in order, and the count of dropped rows is the
\* number of the other lines.
C16_DroppedAndCounted ==
    pc = "parsed" =>
        /\ \A k \in 1..Len(parsedRows) :
              parsedRows[k].id # <<>> /\ parsedRows[k].name # <<>>
        /\ Len(parsedRows)
              = Cardinality({k \in 1..Len(csvFile.lines) : wellFormed(csvFile.lines[k])})
        /\ droppedCount
              = Cardinality({k \in 1..Len(csvFile.lines) : ~wellFormed(csvFile.lines[k])})

-----------------------------------------------------------------------------
(* getResort called on a registry                                          *)

InitResort ==
    /\ pc = "ready"
    /\ RESORTS \in ResortLists
    /\ identifier = ""
    /\ resort = 0
    /\ normIdle
    /\ matchIdle
    /\ loadIdle
    /\ mapIdle
    /\ parseIdle
    /\ restIdle

\* one call getResort(resortIdOrOsmId)
GetResort ==
    /\ pc = "ready"
    /\ \E id \in Identifiers :
        /\ pc' = "getResort"
        /\ identifier' = id
        /\ resort' = getResort(RESORTS, id)
        /\ UNCHANGED <<RESORTS, normVars, matchVars, loadVars, mapVars, parseVars,
                       restVars>>

\* the caller goes on to its next identifier
NextIdentifier ==
    /\ pc = "getResort"
    /\ pc' = "ready"
    /\ identifier' = ""
    /\ resort' = 0
    /\ UNCHANGED <<RESORTS, normVars, matchVars, loadVars, mapVars, parseVars,
                   restVars>>

NextResort == GetResort \/ NextIdentifier

SpecResort == InitResort /\ [][NextResort]_vars

-----------------------------------------------------------------------------
(* Properties of getResort (checked under SpecResort)                      *)

got == pc = "getResort"

idMatches == {i \in 1..Len(RESORTS) : RESORTS[i].id = identifier}

openskimapMatches ==
    {i \in 1..Len(RESORTS) : identifier \in openskimapIdsOf(RESORTS[i])}

\* C20: getResort returns the resort whose id is the argument; when no resort
\* has that id, it returns the resort that lists the argument among its
\* OpenSkiMap ids; it returns null when the argument is neither.
C20_GetResortFindsResort ==
    got =>
        /\ \A i \in idMatches : resort = i
        /\ idMatches = {} => \A i \in openskimapMatches : resort = i
        /\ idMatches = {} /\ openskimapMatches = {} => resort = 0

-----------------------------------------------------------------------------
(* fetchResortStatus called once, and the two requests settling             *)

\* the arguments of fetchResortStatus: the id and the OpenSkiMap id of a
\* resort, an id of the array of Paradiski, and the name of no resort
FetchIdentifiers ==
    {LesTroisVallees.id, LesTroisVallees.openskimap_id.string, LaPlagne,
     "non-existent-resort"}

InitFetch ==
    /\ pc = "ready"
    /\ staticData \in StaticLists
    /\ dynamicData \in DynamicLists
    /\ refData \in RefDataSets
    /\ requests = NoRequests
    /\ fetcher = FALSE
    /\ promise = NoPromise
    /\ normIdle
    /\ matchIdle
    /\ loadIdle
    /\ mapIdle
    /\ parseIdle
    /\ resortIdle
    /\ statusIdle
    /\ runIdle
    /\ httpIdle

\* fetchResortStatus(resortIdOrOsmId) up to its first suspension: it throws
\* for an unknown resort; otherwise it constructs the fetcher, and fetchMapData
\* starts the two requests
FetchResortStatus ==
    /\ pc = "ready"
    /\ \E id \in FetchIdentifiers :
        /\ identifier' = id
        /\ resort' = findResort(RESORTS, id)
        /\ IF findResort(RESORTS, id) = 0
           THEN /\ pc' = "settled"
                /\ promise' = rejected(<<"Resort not found: ", id>>)
                /\ UNCHANGED <<fetcher, requests>>
           ELSE /\ pc' = "fetching"
                /\ fetcher' = TRUE
                /\ requests' = [static |-> "pending", dynamic |-> "pending"]
                /\ promise' = pendingPromise
        /\ UNCHANGED <<RESORTS, staticData, dynamicData, refData, normVars,
                       matchVars, loadVars, mapVars, parseVars, statusVars,
                       runVars, httpVars>>

\* what follows the settling of a request
settle(reqs) ==
    /\ requests' = reqs
    /\ promise' = promiseAfter(promise, reqs, staticData, dynamicData, refData)
    /\ pc' = IF "pending" \in {reqs.static, reqs.dynamic} THEN "fetching" ELSE "settled"
    /\ UNCHANGED <<resortVars, staticData, dynamicData, refData, fetcher, normVars,
                   matchVars, loadVars, mapVars, parseVars, statusVars, runVars,
                   httpVars>>

\* fetchStaticData returns the parsed items, or fails (a network error, the
\* timeout, or a body JSON.parse rejects)
StaticSettles ==
    /\ pc = "fetching"
    /\ requests.static = "pending"
    /\ \E outcome \in {"fulfilled", "rejected"} :
        settle([requests EXCEPT !.static = outcome])

\* fetchDynamicData returns the parsed items, or fails
DynamicSettles ==
    /\ pc = "fetching"
    /\ requests.dynamic = "pending"
    /\ \E outcome \in {"fulfilled", "rejected"} :
        settle([requests EXCEPT !.dynamic = outcome])

NextFetch == FetchResortStatus \/ StaticSettles \/ DynamicSettles

SpecFetch == InitFetch /\ [][NextFetch]_vars

-----------------------------------------------------------------------------
(* Properties of fetchResortStatus (checked under SpecFetch)                *)

\* C21: fetchResortStatus of an identifier that is neither the id nor an
\* OpenSkiMap id of a supported resort rejects with a message that starts
\* with "Resort not found", and no fetcher is constructed and no request is
\* started.
C21_UnknownResortRejects ==
    pc # "ready" /\ idMatches = {} /\ openskimapMatches = {} =>
        /\ promise.state = "rejected"
        /\ promise.error[1] = "Resort not found: "
        /\ fetcher = FALSE
        /\ requests = NoRequests

\* C21 witness: the call for "non-existent-resort" has been rejected.
C21_Witness ==
    /\ pc = "settled"
    /\ identifier = "non-existent-resort"
    /\ promise = rejected(<<"Resort not found: ", "non-existent-resort">>)

statusFor(openingStatus) ==
    CASE openingStatus = "OPEN" -> "open"
      [] openingStatus \in {"FORECAST", "DELAYED"} -> "scheduled"
      [] OTHER -> "closed"

\* C22: every lift and every run of a returned result has a status among
\* open, closed and scheduled: open for OPEN, scheduled for FORECAST and
\* DELAYED, closed for any other opening status and for an item without
\* dynamic entry.
C22_StatusOfThree ==
    promise.state = "fulfilled" =>
        /\ \A k \in 1..Len(promise.lifts) :
              /\ promise.lifts[k].status \in {"open", "closed", "scheduled"}
              /\ promise.lifts[k].status = statusFor(promise.lifts[k].openingStatus)
        /\ \A k \in 1..Len(promise.runs) :
              /\ promise.runs[k].status \in {"open", "closed", "scheduled"}
              /\ promise.runs[k].status = statusFor(promise.runs[k].openingStatus)

\* C22 witness: a result with a delayed lift, which is scheduled, and a run
\* without dynamic entry, which is closed.
C22_Witness ==
    /\ promise.state = "fulfilled"
    /\ Len(promise.lifts) = 1 /\ Len(promise.runs) = 1
    /\ promise.lifts[1].openingStatus = "DELAYED"
    /\ promise.lifts[1].status = "scheduled"
    /\ promise.runs[1].openingStatus = ""
    /\ promise.runs[1].status = "closed"
    /\ dynamicData = <<[id |-> 1, openingStatus |-> "DELAYED"]>>

\* the items of the static list that would pass the schema
available ==
    LET data == fetchData(staticData, dynamicData, refData)
    IN  [lifts |-> SelectSeq(data.lifts, validLift),
         runs |-> SelectSeq(data.runs, validRun)]

\* C25: partial results are returned when available: when one of the two
\* requests has failed and the other has not, the call is not rejected, and
\* when both have succeeded the call resolves with the lifts and runs that
\* pass the schema, also when some other item does not.
C25_PartialResults ==
    /\ requests \in {[static |-> "fulfilled", dynamic |-> "rejected"],
                     [static |-> "rejected", dynamic |-> "fulfilled"]}
          => promise.state = "fulfilled"
    /\ requests = [static |-> "fulfilled", dynamic |-> "fulfilled"]
          => promise = fulfilled(available)

-----------------------------------------------------------------------------
(* normalizeStatus of the runner applied to a raw value                     *)

InitStatus ==
    /\ pc = "start"
    /\ raw \in RawValues
    /\ normalizedStatus = ""
    /\ normIdle
    /\ matchIdle
    /\ loadIdle
    /\ mapIdle
    /\ parseIdle
    /\ resortIdle
    /\ fetchIdle
    /\ runIdle
    /\ httpIdle

\* one call normalizeStatus(raw)
NormalizeStatus ==
    /\ pc = "start"
    /\ pc' = "statusNormalized"
    /\ normalizedStatus' = runnerNormalizeStatus(raw)
    /\ UNCHANGED <<raw, normVars, matchVars, loadVars, mapVars, parseVars, resortVars,
                   fetchVars, runVars, httpVars>>

NextStatus == NormalizeStatus

SpecStatus == InitStatus /\ [][NextStatus]_vars

-----------------------------------------------------------------------------
(* Properties of the runner's normalizeStatus (checked under SpecStatus)    *)

\* C23: normalizeStatus gives every raw string of the status table the
\* status the table gives it: open for O, open, opened, 1, true, green,
\* ouvert, offen and aperto; closed for F, closed, 0, false, red, ferm\'e,
\* geschlossen and chiuso; scheduled for P, scheduled, planned and expected.
C23_StatusTable ==
    pc = "statusNormalized" =>
        \A t \in StatusTable : raw = stringValue(t[1]) => normalizedStatus = t[2]

-----------------------------------------------------------------------------
(* The runner: node runner.js --all, or node runner.js <resort-id>          *)

InitRun ==
    /\ pc = "start"
    /\ \/ /\ resorts \in ShortConfigurations
          /\ arg \in {AllArg} \cup {[all |-> FALSE, id |-> id] : id \in 0..MaxConfigured}
          /\ behaviours \in BehavioursFor(resorts, callIds(resorts, arg))
       \/ /\ resorts = LongConfiguration
          /\ arg = AllArg
          /\ behaviours \in {[k \in 1..Len(LongConfiguration) |-> b] :
                                b \in {DefaultBehaviour}}
    /\ batchStart = 0
    /\ extractions = <<>>
    /\ runResults = <<>>
    /\ insufficientData = {}
    /\ exitCode = 0
    /\ normIdle
    /\ matchIdle
    /\ loadIdle
    /\ mapIdle
    /\ parseIdle
    /\ resortIdle
    /\ fetchIdle
    /\ statusIdle
    /\ httpIdle

otherThanRun ==
    <<normVars, matchVars, loadVars, mapVars, parseVars, resortVars, fetchVars,
      statusVars, httpVars>>

\* runAll is called: no extraction has started
RunAll ==
    /\ pc = "start"
    /\ arg.all
    /\ pc' = "loop"
    /\ batchStart' = 0
    /\ extractions' = [k \in 1..Len(resorts) |-> notStarted]
    /\ UNCHANGED <<resorts, behaviours, arg, runResults, insufficientData, exitCode,
                   otherThanRun>>

\* batch.map(...) starts the extraction of every resort of the batch
StartBatch ==
    /\ pc = "loop"
    /\ batchStart < Len(resorts)
    /\ pc' = "awaiting"
    /\ extractions' = [k \in 1..Len(resorts) |->
                        IF k \in batchOf(batchStart, Len(resorts))
                        THEN pendingExtraction ELSE extractions[k]]
    /\ UNCHANGED <<resorts, behaviours, arg, batchStart, runResults, insufficientData,
                   exitCode, otherThanRun>>

\* one pending extractResort call settles, in any order in which no call
\* settles before MaxOvertaking or more calls that started before it
SettleExtraction ==
    /\ pc \in {"awaiting", "extracting"}
    /\ \E k \in DOMAIN extractions :
        /\ extractions[k].state = "pending"
        /\ overtaken(extractions, k) < MaxOvertaking
        /\ extractions' = [extractions EXCEPT ![k] =
                extractResort(resorts, callIds(resorts, arg)[k], behaviours[k])]
    /\ UNCHANGED <<pc, resorts, behaviours, arg, batchStart, runResults,
                   insufficientData, exitCode, otherThanRun>>

\* Promise.all of the batch resolved: the loop over batchResults
CollectBatch ==
    /\ pc = "awaiting"
    /\ \A k \in batchOf(batchStart, Len(resorts)) : extractions[k].state # "pending"
    /\ pc' = "loop"
    /\ runResults' = resultsAfter(runResults, resorts, extractions,
                                  batchOf(batchStart, Len(resorts)))
    /\ batchStart' = batchStart + CONCURRENCY_LIMIT
    /\ UNCHANGED <<resorts, behaviours, arg, extractions, insufficientData, exitCode,
                   otherThanRun>>

\* the loop ends and runAll returns results
ReturnResults ==
    /\ pc = "loop"
    /\ batchStart >= Len(resorts)
    /\ pc' = "summary"
    /\ UNCHANGED <<runVars, otherThanRun>>

\* the summary of --all and the exit of the process
Summary ==
    /\ pc = "summary"
    /\ pc' = "exited"
    /\ insufficientData' = insufficientDataOf(runResults)
    /\ exitCode' = IF insufficientDataOf(runResults) # {} THEN 1 ELSE 0
    /\ UNCHANGED <<resorts, behaviours, arg, batchStart, extractions, runResults,
                   otherThanRun>>

\* node runner.js <resort-id>: one extractResort call
ExtractOne ==
    /\ pc = "start"
    /\ ~arg.all
    /\ pc' = "extracting"
    /\ extractions' = <<pendingExtraction>>
    /\ UNCHANGED <<resorts, behaviours, arg, batchStart, runResults, insufficientData,
                   exitCode, otherThanRun>>

\* the result is printed; a rejection nobody handles ends the process with 1
PrintOne ==
    /\ pc = "extracting"
    /\ extractions[1].state # "pending"
    /\ pc' = "exited"
    /\ exitCode' = IF extractions[1].state = "rejected" THEN 1 ELSE 0
    /\ UNCHANGED <<resorts, behaviours, arg, batchStart, extractions, runResults,
                   insufficientData, otherThanRun>>

NextRun ==
    \/ RunAll
    \/ StartBatch
    \/ SettleExtraction
    \/ CollectBatch
    \/ ReturnResults
    \/ Summary
    \/ ExtractOne
    \/ PrintOne

SpecRun == InitRun /\ [][NextRun]_vars

-----------------------------------------------------------------------------
(* Properties of the runner (checked under SpecRun)                         *)

\* a result of an extraction that succeeded
successful(r) == ~(r.error # "" \/ r.note \/ r.requiresBrowserRendering)

\* C24: after node runner.js --all, the resorts reported as having
\* insufficient data are the successfully extracted resorts that do not have
\* more than 2 lifts and more than 2 runs, and the exit code is 1 exactly
\* when there is one.
C24_MinimumDataThreshold ==
    (pc = "exited" /\ arg.all) =>
        /\ insufficientData =
                {id \in DOMAIN runResults :
                    /\ successful(runResults[id])
                    /\ ~(runResults[id].lifts > 2 /\ runResults[id].runs > 2)}
        /\ exitCode = 1 <=>
                \E id \in DOMAIN runResults :
                    /\ successful(runResults[id])
                    /\ ~(runResults[id].lifts > 2 /\ runResults[id].runs > 2)

inFlight == {k \in DOMAIN extractions : extractions[k].state = "pending"}

batchNumber(k) == (k - 1) \div 20

\* C28: at most 20 extractions are in flight, and an extraction of a later
\* batch has only started when every extraction of the earlier batches has
\* settled.
C28_BatchedParallelism ==
    /\ Cardinality(inFlight) <= 20
    /\ arg.all =>
        \A j, k \in DOMAIN extractions :
            (batchNumber(j) < batchNumber(k) /\ extractions[k].state # "none")
                => extractions[j].state \in {"fulfilled", "rejected"}

\* C28 witness: the second batch is in flight after a first batch of 20.
C28_Witness ==
    /\ pc = "awaiting"
    /\ Len(extractions) > 20
    /\ extractions[21].state = "pending"
    /\ \A k \in 1..20 : extractions[k].state = "fulfilled"

\* the extraction of call k fails: no such resort, no such platform, or the
\* platform extractor throws or rejects
fails(k) ==
    \/ findById(resorts, callIds(resorts, arg)[k]) = 0
    \/ /\ ~resorts[findById(resorts, callIds(resorts, arg)[k])].requiresBrowserRendering
       /\ \/ resorts[findById(resorts, callIds(resorts, arg)[k])].platform \notin Platforms
          \/ behaviours[k].throws

\* C29: no extractResort call rejects, a failing call resolves with an object
\* that carries error, and when runAll has returned, results has an entry for
\* exactly the ids of the configured resorts.
C29_FailuresAreValues ==
    /\ \A k \in DOMAIN extractions :
        /\ extractions[k].state # "rejected"
        /\ (extractions[k].state = "fulfilled" /\ fails(k))
                => extractions[k].value.error # ""
    /\ (arg.all /\ pc \in {"summary", "exited"}) =>
            DOMAIN runResults = {resorts[k].id : k \in 1..Len(resorts)}

\* C29 witness: runAll has returned the results of two resorts, one of which
\* failed by an exception of its extractor.
C29_Witness ==
    /\ pc = "summary"
    /\ arg.all
    /\ Cardinality(DOMAIN runResults) = 2
    /\ \E k \in DOMAIN extractions : behaviours[k].throws /\ fails(k)
    /\ \E k \in DOMAIN extractions : ~fails(k)

-----------------------------------------------------------------------------
(* One call of fetchUrl and the events of its requests                      *)

otherThanHttp ==
    <<normVars, matchVars, loadVars, mapVars, parseVars, resortVars, fetchVars,
      statusVars, runVars>>

InitHttp ==
    /\ pc = "start"
    /\ server \in Servers
    /\ requestUrl \in Urls
    /\ request = "none"
    /\ httpPromise = NoHttpPromise
    /\ redirects = FALSE
    /\ normIdle
    /\ matchIdle
    /\ loadIdle
    /\ mapIdle
    /\ parseIdle
    /\ resortIdle
    /\ fetchIdle
    /\ statusIdle
    /\ runIdle

\* fetchUrl(url): the promise is created and the request sent
FetchUrl ==
    /\ pc = "start"
    /\ pc' = "fetching"
    /\ request' = "sent"
    /\ httpPromise' = pendingHttpPromise
    /\ UNCHANGED <<server, requestUrl, redirects, otherThanHttp>>

\* res.on('end'): the body of a response that is no redirect is complete
ResponseEnd ==
    /\ pc = "fetching"
    /\ request = "sent"
    /\ server[requestUrl].kind = "body"
    /\ request' = "closed"
    /\ httpPromise' = settleWith(httpPromise, "fulfilled", "body")
    /\ UNCHANGED <<pc, server, requestUrl, redirects, otherThanHttp>>

\* a 3xx response with a location: fetchUrl(location).then(resolve).catch(reject)
Redirect ==
    /\ pc = "fetching"
    /\ request = "sent"
    /\ server[requestUrl].kind = "redirect"
    /\ requestUrl' = server[requestUrl].location
    /\ request' = "sent"
    /\ redirects' = ~redirects
    /\ UNCHANGED <<pc, server, httpPromise, otherThanHttp>>

\* req.on('error') of a request that failed, or that was destroyed
RequestError ==
    /\ pc = "fetching"
    /\ \/ request = "sent" /\ server[requestUrl].kind = "error"
       \/ request = "destroyed"
    /\ request' = "closed"
    /\ httpPromise' = settleWith(httpPromise, "rejected", "network error")
    /\ UNCHANGED <<pc, server, requestUrl, redirects, otherThanHttp>>

\* req.on('timeout'): req.destroy() and reject with the timeout error
Timeout ==
    /\ pc = "fetching"
    /\ request = "sent"
    /\ server[requestUrl].kind = "timeout"
    /\ request' = "destroyed"
    /\ httpPromise' = settleWith(httpPromise, "rejected", "timeout error")
    /\ UNCHANGED <<pc, server, requestUrl, redirects, otherThanHttp>>

NextHttp ==
    \/ FetchUrl
    \/ ResponseEnd
    \/ Redirect
    \/ RequestError
    \/ Timeout

SpecHttp == InitHttp /\ [][NextHttp]_vars

\* the event loop runs every callback that is due
FairSpecHttp == SpecHttp /\ WF_vars(NextHttp)

-----------------------------------------------------------------------------
(* Properties of fetchUrl (checked under FairSpecHttp)                      *)

settled == httpPromise.state \in {"fulfilled", "rejected"}

\* C30: every call of fetchUrl eventually settles, with the body, a network
\* error or the timeout error, and a settled promise never changes again.
C30_EventuallySettlesOnce ==
    /\ <>settled
    /\ [](settled => httpPromise.value \in {"body", "network error", "timeout error"})
    /\ [][settled => httpPromise' = httpPromise]_vars

-----------------------------------------------------------------------------
(* The ids findMatches returns (checked under Spec)                         *)

\* the positions of the reference list, one for every returned id, that hold
\* the returned ids and go up
embeddings ==
    {f \in [1..Len(result) -> 1..Len(referenceData)] :
        /\ \A i \in 1..Len(result) : referenceData[f[i]].id = result[i]
        /\ \A i, j \in 1..Len(result) : i < j => f[i] < f[j]}

uniqueIds ==
    \A i, j \in 1..Len(referenceData) :
        referenceData[i].id = referenceData[j].id => i = j

\* C27: every id findMatches returns is the id of an entity of the reference
\* list, the ids come in the order of their entities in the list, and no id
\* is returned twice when the ids of the list are unique.
C27_IdsInReferenceOrder ==
    called =>
        /\ \A i \in 1..Len(result) :
              \E k \in 1..Len(referenceData) : referenceData[k].id = result[i]
        /\ embeddings # {}
        /\ uniqueIds => \A i, j \in 1..Len(result) : result[i] = result[j] => i = j

\* C27 witness: a call with a hint on a list of several entities returned
\* several ids.
C27_Witness ==
    /\ called
    /\ Len(result) > 1
    /\ hint # NoHint
    /\ Len(referenceData) > 1

-----------------------------------------------------------------------------
(* mapNames against findMatches (checked under SpecScenario)                *)

\* findMatches for the name with no hint, on the catalog mapNames was given
withoutHint(n) == findMatches(n, referenceData, NoHint)

mappedAs(n) == {m \in 1..Len(results.mapped) : results.mapped[m].online_name = n}

\* C26: for every name of the list that is not empty, mapNames puts the name
\* in mapped exactly when findMatches with no hint returns some id, and the
\* openskimap_id mapNames reports is one of the ids findMatches returns.
C26_MatchersAgree ==
    mapped =>
        \A k \in 1..Len(onlineNames) :
            onlineNames[k] # <<>> =>
                /\ mappedAs(onlineNames[k]) # {} <=> withoutHint(onlineNames[k]) # <<>>
                /\ \A m \in mappedAs(onlineNames[k]) :
                      \E i \in 1..Len(withoutHint(onlineNames[k])) :
                          withoutHint(onlineNames[k])[i] = results.mapped[m].openskimap_id

\* C26 witness: mapNames mapped one name by fuzzy score and left another
\* unmapped, and findMatches returns two ids for a mapped name.
C26_Witness ==
    /\ mapped
    /\ \E m \in 1..Len(results.mapped) :
          /\ results.mapped[m].match_type = "fuzzy"
          /\ Len(withoutHint(results.mapped[m].online_name)) = 2
    /\ results.unmapped # <<>>

====
